---- MODULE Spec2Model ----
(***************************************************************************)
(* Model of the tradedata sync pipeline: RobinhoodAdapter normalisation,   *)
(* the validators, Storage/repository writes over the SQLite schema, and   *)
(* the sync_transactions / sync_positions orchestration.                   *)
(***************************************************************************)
EXTENDS Integers, Sequences, FiniteSets, TLC

\* ------------------------------------------------------------------------
\* Bounds of the model
\* ------------------------------------------------------------------------
MaxCalls == 2
MaxRaw == 2
MaxDirect == 1
MaxScopes == 2
MaxStatements == 3
MaxConnects == 2
MaxExecutions == 3
MaxDay == 2

\* ------------------------------------------------------------------------
\* Values
\* ------------------------------------------------------------------------
\* Optional[T] is a sequence of length 0 (None) or 1.
NoEntity == << >>

\* Execution.leg_id = None
NoLeg == 0

ValidTs == "2025-01-01T00:00:00Z"
NowTs == "utcnow"
BadTs == "not-a-timestamp"

Sources == {"robinhood", "manual"}

\* Raw legs / executions of a Robinhood option order payload.
RawLegBuy == [strike_price |-> 150, option_type |-> "call", side |-> "buy",
              position_effect |-> "open", ratio_quantity |-> 1]
RawLegSell == [strike_price |-> 155, option_type |-> "call", side |-> "sell",
               position_effect |-> "open", ratio_quantity |-> 1]
RawExec == [price |-> 2, quantity |-> 10, timestamp |-> ValidTs]

\* Raw transaction payloads.  A key that is absent from the dict is the
\* empty string (or has_legs = FALSE for the "legs" key).
RawOption == [id |-> "opt-123", has_legs |-> TRUE, legs |-> <<RawLegBuy, RawLegSell>>,
              instrument |-> "", symbol |-> "", type |-> "",
              created_at |-> ValidTs, chain_symbol |-> "AAPL",
              executions |-> <<RawExec>>, side |-> "", quantity |-> 0]
RawStock == [id |-> "stk-123", has_legs |-> FALSE, legs |-> << >>,
             instrument |-> "instruments/msft", symbol |-> "MSFT", type |-> "",
             created_at |-> ValidTs, chain_symbol |-> "",
             executions |-> << >>, side |-> "buy", quantity |-> 5]
RawStockBadTs == [RawStock EXCEPT !.created_at = BadTs]

RawCatalog == {RawOption, RawStock, RawStockBadTs}

RECURSIVE SeqsUpTo(_, _)
SeqsUpTo(S, n) ==
    IF n = 0 THEN {<< >>}
    ELSE LET shorter == SeqsUpTo(S, n - 1)
         IN shorter \cup {Append(s, x) : s \in {q \in shorter : Len(q) = n - 1}, x \in S}

RawOutputs == SeqsUpTo(RawCatalog, MaxRaw)

\* Raw records whose children matter: an option order whose second leg has
\* ratio_quantity 0, an option order that carries a symbol as well, a stock
\* order with a chain_symbol and execution entries, a stock order with
\* quantity 0, and a dividend with execution entries.
RawOptionBadLeg == [RawOption EXCEPT !.id = "opt-456",
                       !.legs = <<RawLegBuy, [RawLegSell EXCEPT !.ratio_quantity = 0]>>]
RawOptionSymbol == [RawOption EXCEPT !.symbol = "AAPL"]
RawStockExecs == [RawStock EXCEPT !.chain_symbol = "MSFT", !.executions = <<RawExec>>]
RawStockZero == [RawStock EXCEPT !.id = "stk-000", !.quantity = 0]
RawDividend == [RawStock EXCEPT !.id = "div-1", !.symbol = "", !.instrument = "",
                   !.type = "dividend_payment", !.executions = <<RawExec>>]

RecordCatalog == {RawOptionBadLeg, RawOptionSymbol, RawStockExecs, RawStockZero,
                  RawDividend}

\* The adapter output of a call: one of these records.
RecordOutputs == {<<raw>> : raw \in RecordCatalog}

\* Raw position payloads.
RawPosAAPL == [symbol |-> "AAPL", quantity |-> 10, last_updated |-> ValidTs]
RawPosMSFT == [symbol |-> "MSFT", quantity |-> 5, last_updated |-> ValidTs]
RawPosBad == [symbol |-> "", quantity |-> 1, last_updated |-> ValidTs]
RawPosCatalog == {RawPosAAPL, RawPosMSFT, RawPosBad}
RawPosOutputs == SeqsUpTo(RawPosCatalog, MaxRaw)

\* Keyword arguments a caller passes to sync_transactions.
NoTypes == [has_types |-> FALSE, types |-> {}]
StockOnly == [has_types |-> TRUE, types |-> {"stock"}]
TypeArgs == {NoTypes, StockOnly}

\* ------------------------------------------------------------------------
\* RobinhoodAdapter
\* ------------------------------------------------------------------------
\* str(uuid.uuid4()): a value unique to the place that draws it, here the
\* call and the raw record it is drawn for; the uuids of a record's legs
\* and executions follow its transaction's.
uuid4(call, record) == call * 100 + record * 10

\* "option" in raw.get("instrument", "")
ContainsOption(s) == s \in {"options/instruments/aapl"}

\* "crypto" in raw.get("type", "").lower(), and the same for "dividend"
ContainsCrypto(s) == s \in {"crypto_order", "Crypto", "crypto_dividend"}

ContainsDividend(s) == s \in {"dividend_payment", "crypto_dividend"}

\* Faulty variant: the symbol is looked at before the option markers.
_determine_transaction_type_symbol_first(raw) ==
    IF raw.symbol # "" THEN "stock"
    ELSE IF raw.has_legs \/ ContainsOption(raw.instrument) THEN "option"
    ELSE IF ContainsCrypto(raw.type) THEN "crypto"
    ELSE IF ContainsDividend(raw.type) THEN "dividend"
    ELSE "unknown"

_determine_transaction_type(raw) ==
    IF raw.has_legs \/ ContainsOption(raw.instrument) THEN "option"
    ELSE IF raw.symbol # "" /\ ~ContainsOption(raw.instrument) THEN "stock"
    ELSE IF ContainsCrypto(raw.type) THEN "crypto"
    ELSE IF ContainsDividend(raw.type) THEN "dividend"
    ELSE "unknown"

_extract_timestamp(raw) ==
    IF raw.created_at # "" THEN raw.created_at ELSE NowTs

\* Times of day are counted in ticks from 0 (00:00:00); the last one is
\* 23:59:59.999999.
LastTick == 2

\* Records of the API response that the date filter is applied to.
MaxStamped == 2

\* A date argument or timestamp: a calendar day and, when the string has a
\* time component, the time of day in ticks, 0 being 00:00:00 and LastTick
\* 23:59:59.999999.
IsoString(day, has_time, tick) == [day |-> day, has_time |-> has_time, tick |-> tick]

\* datetime.fromisoformat(s.replace("Z", "+00:00")), made timezone-aware: a
\* point in time, counted in ticks.  A string without a time component gives
\* midnight.
fromisoformat(s) == s.day * (LastTick + 1) + (IF s.has_time THEN s.tick ELSE 0)

\* end_dt.time() == datetime.min.time()
IsMidnight(dt) == dt % (LastTick + 1) = 0

\* end_dt.replace(hour=23, minute=59, second=59, microsecond=999999)
EndOfDay(dt) == dt - (dt % (LastTick + 1)) + LastTick

\* RobinhoodAdapter._filter_by_date; start_date and end_date are Optional.
_filter_by_date(transactions, start_date, end_date) ==
    LET end_dt == IF IsMidnight(fromisoformat(end_date[1]))
                  THEN EndOfDay(fromisoformat(end_date[1]))
                  ELSE fromisoformat(end_date[1])
        Keep(tx) ==
            \* _extract_timestamp(tx) is the record's created_at
            LET tx_datetime == fromisoformat(tx.created_at)
            IN /\ start_date # NoEntity => ~(tx_datetime < fromisoformat(start_date[1]))
               /\ end_date # NoEntity => ~(tx_datetime > end_dt)
    IN SelectSeq(transactions, Keep)

\* Lines 276-280 of extract_transactions.
extract_transactions(transactions, start_date, end_date) ==
    IF start_date # NoEntity \/ end_date # NoEntity
    THEN _filter_by_date(transactions, start_date, end_date)
    ELSE transactions

normalize_transaction(raw, uuid) ==
    [id |-> uuid, source |-> "robinhood", source_id |-> raw.id,
     type |-> _determine_transaction_type(raw),
     created_at |-> _extract_timestamp(raw), raw_data |-> raw]

\* Faulty variant: an OptionOrder is built without looking at the type.
extract_option_order_any_type(raw, transaction_id) ==
    << [id |-> transaction_id, chain_symbol |-> raw.chain_symbol] >>

extract_option_order(raw, transaction_id) ==
    IF _determine_transaction_type(raw) # "option" THEN NoEntity
    ELSE << [id |-> transaction_id, chain_symbol |-> raw.chain_symbol] >>

\* uuid0 + i is the uuid4 drawn for the i-th raw entry.
extract_option_legs(raw, option_order_id, uuid0) ==
    [i \in 1..Len(raw.legs) |->
        [id |-> uuid0 + i, order_id |-> option_order_id,
         strike_price |-> raw.legs[i].strike_price,
         option_type |-> raw.legs[i].option_type,
         side |-> raw.legs[i].side,
         position_effect |-> raw.legs[i].position_effect,
         ratio_quantity |-> raw.legs[i].ratio_quantity]]

\* Faulty variant: every execution is paired with the first leg.
extract_executions_first_leg(raw, transaction_id, leg_ids, uuid0) ==
    [i \in 1..Len(raw.executions) |->
        [id |-> uuid0 + i, order_id |-> transaction_id,
         leg_id |-> IF Len(leg_ids) > 0 THEN leg_ids[1] ELSE NoLeg,
         price |-> raw.executions[i].price,
         quantity |-> raw.executions[i].quantity,
         timestamp |-> raw.executions[i].timestamp]]

\* leg_ids is a sequence; the empty sequence stands for None as well
\* (`if leg_ids and idx < len(leg_ids)`).
extract_executions(raw, transaction_id, leg_ids, uuid0) ==
    [i \in 1..Len(raw.executions) |->
        [id |-> uuid0 + i, order_id |-> transaction_id,
         leg_id |-> IF i <= Len(leg_ids) THEN leg_ids[i] ELSE NoLeg,
         price |-> raw.executions[i].price,
         quantity |-> raw.executions[i].quantity,
         timestamp |-> raw.executions[i].timestamp]]

extract_stock_order(raw, transaction_id) ==
    IF _determine_transaction_type(raw) # "stock" THEN NoEntity
    ELSE IF raw.symbol = "" THEN NoEntity
    ELSE << [id |-> transaction_id, symbol |-> raw.symbol, side |-> raw.side,
             quantity |-> raw.quantity] >>

normalize_position(raw, uuid) ==
    [id |-> uuid, source |-> "robinhood", symbol |-> raw.symbol,
     quantity |-> raw.quantity, last_updated |-> raw.last_updated]

\* ------------------------------------------------------------------------
\* Credentials, factory and login
\* ------------------------------------------------------------------------
\* What keyring.get_password returns for <source>_email / <source>_password;
\* a missing entry (None) is the empty string.
KeyringEntries ==
    {[email |-> "user", password |-> "pw"],
     [email |-> "", password |-> "pw"],
     [email |-> "user", password |-> ""],
     [email |-> "", password |-> ""]}

\* Faulty variant: credentials returned although the keyring lacks one of them.
get_credentials_unchecked(entry) ==
    << [username |-> entry.email, password |-> entry.password] >>

\* credentials.get_credentials: NoEntity stands for CredentialsNotFoundError.
get_credentials(entry) ==
    IF entry.email = "" \/ entry.password = ""
    THEN NoEntity
    ELSE << [username |-> entry.email, password |-> entry.password] >>

\* The adapter argument of a sync call: None, or an object that has a login
\* method, only an `rh` attribute with a login, both, or neither.
AdapterArgs == {"None", "login", "rh", "both", "neither"}

\* create_adapter(source) builds a RobinhoodAdapter: no login method, rh set.
create_adapter == "rh"

AdapterCall(fn, args) == [fn |-> fn, args |-> args]

\* Faulty variant: the fallback through `rh` is taken after login() as well.
_login_adapter_no_return(adapter, username, password, fails) ==
    LET call == AdapterCall("login", <<username, password>>)
    IN IF adapter = "neither"
       THEN [calls |-> << >>, raised |-> "AttributeError"]
       ELSE [calls |-> IF adapter = "both" /\ ~fails THEN <<call, call>> ELSE <<call>>,
             raised |-> IF fails THEN "LoginError" ELSE "none"]

\* _login_adapter: the calls it makes on the adapter and the error it raises.
_login_adapter(adapter, username, password, fails) ==
    LET call == AdapterCall("login", <<username, password>>)
    IN IF adapter \in {"login", "both"}
       THEN [calls |-> <<call>>, raised |-> IF fails THEN "LoginError" ELSE "none"]
       ELSE IF adapter = "rh"
       THEN [calls |-> <<call>>, raised |-> IF fails THEN "LoginError" ELSE "none"]
       ELSE [calls |-> << >>, raised |-> "AttributeError"]

\* ------------------------------------------------------------------------
\* Validator (TRUE = returns normally, FALSE = raises ValidationError)
\* ------------------------------------------------------------------------
_is_valid_iso_timestamp(ts) == ts \in {ValidTs, NowTs}

\* Faulty variant: a validator that accepts everything.
validate_transaction_accept_all(t) == TRUE

validate_transaction(t) ==
    /\ t.source # ""
    /\ t.source_id # ""
    /\ t.type # ""
    /\ t.created_at # ""
    /\ _is_valid_iso_timestamp(t.created_at)

validate_option_order(o) == o.chain_symbol # ""

\* Faulty variant: a validator that accepts everything.
validate_option_leg_accept_all(l) == TRUE

validate_option_leg(l) ==
    /\ l.strike_price >= 0
    /\ l.option_type \in {"call", "put"}
    /\ l.side \in {"buy", "sell"}
    /\ l.position_effect \in {"open", "close"}
    /\ l.ratio_quantity > 0

validate_execution(e) ==
    /\ e.price >= 0
    /\ e.quantity > 0
    /\ e.timestamp # ""
    /\ _is_valid_iso_timestamp(e.timestamp)

validate_stock_order(s) ==
    /\ s.symbol # ""
    /\ s.side \in {"buy", "sell"}
    /\ s.quantity > 0

\* Faulty variant: a validator that accepts everything.
validate_position_accept_all(p) == TRUE

validate_position(p) ==
    /\ p.source # ""
    /\ p.symbol # ""
    /\ p.last_updated # ""
    /\ _is_valid_iso_timestamp(p.last_updated)

\* The checks of the three validators with sign constraints, in the order of
\* the code: the result is the field the ValidationError message starts
\* with, or "none" when the validator returns normally.  Fields are typed,
\* so the isinstance checks pass; Optional fields are None (NoEntity) or
\* <<value>>.
Uuid == "550e8400-e29b-41d4-a716-446655440000"

_is_uuid(value) == value = Uuid

\* Faulty variant: the boundary strike_price = 0 is rejected too.
validate_option_leg_message_strict(leg) ==
    IF leg.id = "" \/ ~_is_uuid(leg.id) THEN "OptionLeg.id"
    ELSE IF leg.order_id = "" \/ ~_is_uuid(leg.order_id) THEN "OptionLeg.order_id"
    ELSE IF leg.strike_price <= 0 THEN "OptionLeg.strike_price"
    ELSE IF leg.expiration_date = "" \/ ~_is_valid_iso_timestamp(leg.expiration_date)
        THEN "OptionLeg.expiration_date"
    ELSE IF leg.option_type \notin {"call", "put"} THEN "OptionLeg.option_type"
    ELSE IF leg.side \notin {"buy", "sell"} THEN "OptionLeg.side"
    ELSE IF leg.position_effect \notin {"open", "close"} THEN "OptionLeg.position_effect"
    ELSE IF leg.ratio_quantity <= 0 THEN "OptionLeg.ratio_quantity"
    ELSE "none"

validate_option_leg_message(leg) ==
    IF leg.id = "" \/ ~_is_uuid(leg.id) THEN "OptionLeg.id"
    ELSE IF leg.order_id = "" \/ ~_is_uuid(leg.order_id) THEN "OptionLeg.order_id"
    ELSE IF leg.strike_price < 0 THEN "OptionLeg.strike_price"
    ELSE IF leg.expiration_date = "" \/ ~_is_valid_iso_timestamp(leg.expiration_date)
        THEN "OptionLeg.expiration_date"
    ELSE IF leg.option_type \notin {"call", "put"} THEN "OptionLeg.option_type"
    ELSE IF leg.side \notin {"buy", "sell"} THEN "OptionLeg.side"
    ELSE IF leg.position_effect \notin {"open", "close"} THEN "OptionLeg.position_effect"
    ELSE IF leg.ratio_quantity <= 0 THEN "OptionLeg.ratio_quantity"
    ELSE "none"

validate_execution_message(execution) ==
    IF execution.id = "" \/ ~_is_uuid(execution.id) THEN "Execution.id"
    ELSE IF execution.order_id = "" \/ ~_is_uuid(execution.order_id)
        THEN "Execution.order_id"
    ELSE IF execution.leg_id # NoEntity /\ ~_is_uuid(execution.leg_id[1])
        THEN "Execution.leg_id"
    ELSE IF execution.price < 0 THEN "Execution.price"
    ELSE IF execution.quantity <= 0 THEN "Execution.quantity"
    ELSE IF execution.timestamp = "" \/ ~_is_valid_iso_timestamp(execution.timestamp)
        THEN "Execution.timestamp"
    ELSE IF /\ execution.settlement_date # NoEntity
            /\ ~_is_valid_iso_timestamp(execution.settlement_date[1])
        THEN "Execution.settlement_date"
    ELSE "none"

validate_stock_order_message(order) ==
    IF order.id = "" \/ ~_is_uuid(order.id) THEN "StockOrder.id"
    ELSE IF order.symbol = "" THEN "StockOrder.symbol"
    ELSE IF order.side = "" \/ order.side \notin {"buy", "sell"} THEN "StockOrder.side"
    ELSE IF order.quantity <= 0 THEN "StockOrder.quantity"
    ELSE IF order.price # NoEntity /\ order.price[1] < 0 THEN "StockOrder.price"
    ELSE IF order.average_price # NoEntity /\ order.average_price[1] < 0
        THEN "StockOrder.average_price"
    ELSE "none"

\* validate_<model>(entity) for the three models above.
validate_message(model, e) ==
    CASE model = "OptionLeg" -> validate_option_leg_message(e)
      [] model = "Execution" -> validate_execution_message(e)
      [] model = "StockOrder" -> validate_stock_order_message(e)

\* ------------------------------------------------------------------------
\* Listing
\* ------------------------------------------------------------------------
\* Longest list find_all returns to a call of list_transactions.
MaxListed == 3

\* A timestamp is an IsoString; one whose time of day is past the last tick
\* ("25:00:00") makes datetime.fromisoformat raise ValueError.
_parse_timestamp(value) ==
    IF value.tick > LastTick THEN NoEntity ELSE <<fromisoformat(value)>>

\* datetime.now(timezone.utc): the end of the last day.
utcnow == fromisoformat(IsoString(MaxDay, TRUE, LastTick))

_within_days(timestamp, days) ==
    IF timestamp = NoEntity THEN FALSE
    ELSE timestamp[1] >= utcnow - days * (LastTick + 1)

\* The parameters of list_transactions; storage is always passed.
list_transactions_parameters == {"transaction_type", "transaction_types", "days", "storage"}

\* kwargs.names are the keywords of the call, the other fields their values
\* (NoEntity = None); find_all is what repo.find_all() returns.
list_transactions(kwargs, find_all) ==
    IF ~(kwargs.names \subseteq list_transactions_parameters)
    THEN [result |-> << >>, raised |-> "TypeError"]
    ELSE LET types_filter == kwargs.transaction_type
             OfType(tx) == tx.type = types_filter[1]
             typed == IF types_filter # NoEntity THEN SelectSeq(find_all, OfType)
                      ELSE find_all
             Recent(tx) == _within_days(_parse_timestamp(tx.created_at), kwargs.days[1])
             recent == IF kwargs.days # NoEntity THEN SelectSeq(typed, Recent) ELSE typed
         IN [result |-> recent, raised |-> "none"]

\* ------------------------------------------------------------------------
\* Schema and Storage
\* ------------------------------------------------------------------------
EmptyTables == [transactions |-> {}, option_orders |-> {}, option_legs |-> {},
                executions |-> {}, stock_orders |-> {}, positions |-> {}]

TableNames == {"transactions", "option_orders", "option_legs", "executions",
               "stock_orders", "positions"}

Ids(rows) == {r.id : r \in rows}

\* Constraints of get_schema_sql, checked by SQLite on INSERT
\* (PRAGMA foreign_keys = ON).
\* Faulty variant: the table without UNIQUE(source, source_id).
transactions_constraints_pk_only(T, e) == e.id \notin Ids(T.transactions)

transactions_constraints(T, e) ==
    /\ e.id \notin Ids(T.transactions)
    /\ \A t \in T.transactions : ~(t.source = e.source /\ t.source_id = e.source_id)

option_orders_constraints(T, o) ==
    /\ o.id \notin Ids(T.option_orders)
    /\ o.id \in Ids(T.transactions)

option_legs_constraints(T, l) ==
    /\ l.id \notin Ids(T.option_legs)
    /\ l.order_id \in Ids(T.option_orders)

executions_constraints(T, e) ==
    /\ e.id \notin Ids(T.executions)
    /\ e.order_id \in Ids(T.transactions)
    /\ (e.leg_id = NoLeg \/ e.leg_id \in Ids(T.option_legs))

stock_orders_constraints(T, s) ==
    /\ s.id \notin Ids(T.stock_orders)
    /\ s.id \in Ids(T.transactions)

positions_constraints(T, p) == p.id \notin Ids(T.positions)

InsertRow(T, table, row) == [T EXCEPT ![table] = @ \cup {row}]

\* Storage.transaction(): conn.commit() on normal exit makes the
\* connection's view durable; conn.rollback() on error discards it.
transaction_commit(c, d) == [conn |-> c, db |-> c, raised |-> FALSE]
transaction_rollback(c, d) == [conn |-> d, db |-> d, raised |-> TRUE]

\* <Repository>.create(entity) with conn = None: one INSERT inside its own
\* Storage.transaction() scope.  `fault` is a storage error raised by the
\* INSERT for a reason other than a schema constraint.
RepositoryCreate(c, d, table, row, constraints_ok, fault) ==
    IF constraints_ok /\ ~fault
    THEN transaction_commit(InsertRow(c, table, row), d)
    ELSE transaction_rollback(c, d)

\* Faulty variant: a create that reports success without executing its INSERT.
ExecutionRepository_create_noop(c, d, e, fault) ==
    [conn |-> c, db |-> d, raised |-> FALSE]

\* Faulty variant: a create that replaces the stored position of the same symbol.
PositionRepository_create_upsert(c, d, e, fault) ==
    RepositoryCreate([c EXCEPT !.positions = {p \in @ : p.symbol # e.symbol}], d,
                     "positions", e, positions_constraints(c, e), fault)

TransactionRepository_create(c, d, e, fault) ==
    RepositoryCreate(c, d, "transactions", e, transactions_constraints(c, e), fault)
OptionOrderRepository_create(c, d, e, fault) ==
    RepositoryCreate(c, d, "option_orders", e, option_orders_constraints(c, e), fault)
OptionLegRepository_create(c, d, e, fault) ==
    RepositoryCreate(c, d, "option_legs", e, option_legs_constraints(c, e), fault)
ExecutionRepository_create(c, d, e, fault) ==
    RepositoryCreate(c, d, "executions", e, executions_constraints(c, e), fault)
StockOrderRepository_create(c, d, e, fault) ==
    RepositoryCreate(c, d, "stock_orders", e, stock_orders_constraints(c, e), fault)
PositionRepository_create(c, d, e, fault) ==
    RepositoryCreate(c, d, "positions", e, positions_constraints(c, e), fault)

\* Faulty variant: a lookup that never finds the row.
exists_by_source_id_never(T, source, source_id) == FALSE

exists_by_source_id(T, source, source_id) ==
    \E t \in T.transactions : t.source = source /\ t.source_id = source_id

\* Faulty variant: the result list built in reverse.
append_stored_front(stored, entity) == <<entity>> \o stored

\* stored_transactions.append(transaction)
append_stored(stored, entity) == Append(stored, entity)

\* ------------------------------------------------------------------------
\* Statements on a connection
\* ------------------------------------------------------------------------
\* The tables get_schema_sql creates.
SchemaTables == TableNames \cup {"transaction_links"}

\* The table's constraints as the connection enforces them: PRIMARY KEY and
\* UNIQUE always, FOREIGN KEY only under PRAGMA foreign_keys = ON.
InsertAllowed(T, table, row, foreign_keys) ==
    IF ~foreign_keys
    THEN /\ row.id \notin Ids(T[table])
         /\ table = "transactions" => transactions_constraints(T, row)
    ELSE CASE table = "transactions" -> transactions_constraints(T, row)
           [] table = "option_orders" -> option_orders_constraints(T, row)
           [] table = "option_legs" -> option_legs_constraints(T, row)
           [] table = "executions" -> executions_constraints(T, row)
           [] table = "stock_orders" -> stock_orders_constraints(T, row)
           [] table = "positions" -> positions_constraints(T, row)

\* UPDATE <table> SET ... WHERE id = ?: the new values meet the constraints
\* against every other row.
UpdateAllowed(T, table, row, foreign_keys) ==
    InsertAllowed([T EXCEPT ![table] = {r \in @ : r.id # row.id}], table, row,
                  foreign_keys)

UpdateRow(T, table, row) ==
    IF row.id \in Ids(T[table])
    THEN [T EXCEPT ![table] = {r \in @ : r.id # row.id} \cup {row}]
    ELSE T

\* Faulty variant: executions of a deleted leg are deleted with it.
DeleteLegs_cascade(T, leg_ids) ==
    [T EXCEPT !.option_legs = {l \in @ : l.id \notin leg_ids},
              !.executions = {e \in @ : e.leg_id \notin leg_ids}]

\* executions.leg_id REFERENCES option_legs(id) ON DELETE SET NULL
DeleteLegs(T, leg_ids) ==
    [T EXCEPT !.option_legs = {l \in @ : l.id \notin leg_ids},
              !.executions = {IF e.leg_id \in leg_ids
                              THEN [e EXCEPT !.leg_id = NoLeg]
                              ELSE e : e \in @}]

\* option_legs.order_id REFERENCES option_orders(id) ON DELETE CASCADE
DeleteOptionOrders(T, ids) ==
    DeleteLegs([T EXCEPT !.option_orders = {o \in @ : o.id \notin ids}],
               {l.id : l \in {x \in T.option_legs : x.order_id \in ids}})

\* Faulty variant: the option order of a deleted transaction is kept.
DeleteTransactions_keep_orders(T, ids) ==
    [T EXCEPT !.transactions = {t \in @ : t.id \notin ids},
              !.stock_orders = {o \in @ : o.id \notin ids},
              !.executions = {e \in @ : e.order_id \notin ids}]

\* option_orders.id, stock_orders.id and executions.order_id
\* REFERENCES transactions(id) ON DELETE CASCADE
DeleteTransactions(T, ids) ==
    DeleteOptionOrders([T EXCEPT !.transactions = {t \in @ : t.id \notin ids},
                                 !.stock_orders = {o \in @ : o.id \notin ids},
                                 !.executions = {e \in @ : e.order_id \notin ids}],
                       ids)

\* DELETE FROM <table> WHERE id = ?
DeleteRow(T, table, id, foreign_keys) ==
    IF ~foreign_keys
    THEN [T EXCEPT ![table] = {r \in @ : r.id # id}]
    ELSE CASE table = "transactions" -> DeleteTransactions(T, {id})
           [] table = "option_orders" -> DeleteOptionOrders(T, {id})
           [] table = "option_legs" -> DeleteLegs(T, {id})
           [] OTHER -> [T EXCEPT ![table] = {r \in @ : r.id # id}]

\* A statement a repository executes: create / update / delete of one row.
Statement(verb, table, row) == [verb |-> verb, table |-> table, row |-> row]

\* conn.execute(statement): the contents afterwards, and whether it raised
\* (a statement that raises changes nothing).
Execute(T, stmt, foreign_keys) ==
    CASE stmt.verb = "create" ->
            IF InsertAllowed(T, stmt.table, stmt.row, foreign_keys)
            THEN [contents |-> InsertRow(T, stmt.table, stmt.row), raised |-> FALSE]
            ELSE [contents |-> T, raised |-> TRUE]
      [] stmt.verb = "update" ->
            IF \/ stmt.row.id \notin Ids(T[stmt.table])
               \/ UpdateAllowed(T, stmt.table, stmt.row, foreign_keys)
            THEN [contents |-> UpdateRow(T, stmt.table, stmt.row), raised |-> FALSE]
            ELSE [contents |-> T, raised |-> TRUE]
      [] stmt.verb = "delete" ->
            [contents |-> DeleteRow(T, stmt.table, stmt.row.id, foreign_keys),
             raised |-> FALSE]

\* ------------------------------------------------------------------------
\* State
\* ------------------------------------------------------------------------
VARIABLES
    db,                  \* committed contents of the database
    conn,                \* contents as seen through Storage._connection
    op,                  \* operation in progress or last finished
    pc,                  \* position inside the operation
    outcome,             \* "none", "running", "ok" or the error raised
    kwargs,              \* keyword arguments of the sync_transactions call
    raw_transactions,    \* adapter.extract_transactions() result
    raw_positions,       \* adapter.extract_positions() result
    idx,                 \* 1-based position of the for loop over raw records
    transaction,         \* Optional: Transaction normalised for raw record idx
    legs,                \* legs returned by extract_option_legs
    executions,          \* executions returned by extract_executions
    k,                   \* position of the inner for loop (legs / executions)
    stored_transactions, \* list returned by sync_transactions
    stored_positions,    \* list returned by sync_positions
    ncalls,              \* sync calls started
    ndirect,             \* direct repository calls made
    pre,                 \* history: db when the current operation started
    repeat,              \* history: this call repeats the one just before it
    pos_history,         \* history: sync_positions calls so far
    creds,               \* Optional: what credentials.get_credentials returned
    adapter_calls,       \* history: calls the current sync made on the factory / adapter
    storage,             \* the Storage object: path, database file, connection
    scopes,              \* open Storage.transaction() scopes, innermost last
    nstatements,         \* statements executed through scope handles
    event,               \* history: the last step of the storage layer
    runs,                \* concurrent sync_transactions runs, one record each
    factory,             \* a SourceFactory: its registry, and history of register calls
    keyring,             \* the system keyring, and history of the last credentials call
    probe                \* the last call of an adapter or model function: arguments, result

vars == <<db, conn, op, pc, outcome, kwargs, raw_transactions, raw_positions,
          idx, transaction, legs, executions, k, stored_transactions,
          stored_positions, ncalls, ndirect, pre, repeat, pos_history,
          creds, adapter_calls, storage, scopes, nstatements, event, runs,
          factory, keyring, probe>>

storage_vars == <<db, conn>>
loop_vars == <<idx, transaction, legs, executions, k>>
result_vars == <<stored_transactions, stored_positions>>
call_vars == <<op, kwargs, raw_transactions, raw_positions, ncalls, ndirect,
               pre, repeat, pos_history>>
login_vars == <<creds, adapter_calls>>
layer_vars == <<storage, scopes, nstatements, event>>
aux_vars == <<runs, factory, keyring, probe>>

\* Storage.__init__ before _ensure_database_initialized: no connection yet.
\* `file` is the state of the database file ("none" for :memory:), `tables`
\* the tables of the database, `connects` the connections opened so far.
NewStorage(path, file) ==
    [path |-> path, file |-> file, connection |-> FALSE, foreign_keys |-> FALSE,
     tables |-> IF file = "initialized" THEN SchemaTables ELSE {}, connects |-> 0]

\* Lines 53-60: a database file that does not exist is created with the schema.
_ensure_database_initialized(st) ==
    IF st.path # ":memory:" /\ st.file = "absent"
    THEN [st EXCEPT !.file = "initialized", !.tables = SchemaTables]
    ELSE st

\* Faulty variant: a connection opened without the foreign_keys pragma.
connect_without_pragma(st) ==
    IF st.connection THEN st
    ELSE [st EXCEPT !.connection = TRUE,
                    !.tables = IF st.path = ":memory:" THEN SchemaTables ELSE @,
                    !.connects = @ + 1]

\* Storage.connect: the cached connection, or a new one with
\* PRAGMA foreign_keys = ON and, for :memory:, the schema script.
connect(st) ==
    IF st.connection THEN st
    ELSE [st EXCEPT !.connection = TRUE,
                    !.foreign_keys = TRUE,
                    !.tables = IF st.path = ":memory:" THEN SchemaTables ELSE @,
                    !.connects = @ + 1]

\* Storage.close: an in-memory database goes with its connection.
close(st) ==
    [st EXCEPT !.connection = FALSE,
               !.foreign_keys = FALSE,
               !.tables = IF st.path = ":memory:" THEN {} ELSE @]

\* A Storage in use: connected, schema in place, foreign keys enforced.
ConnectedStorage(path) ==
    connect(_ensure_database_initialized(
                NewStorage(path, IF path = ":memory:" THEN "none" ELSE "absent")))

NoEvent == [kind |-> "none", depth |-> 0, db_before |-> EmptyTables,
            conn_before |-> EmptyTables, scope |-> NoEntity, stmt |-> NoEntity,
            raised |-> FALSE]

\* ------------------------------------------------------------------------
\* Models: database rows
\* ------------------------------------------------------------------------
\* <Model>.to_db_tuple(): the fields as a row, in column order.
to_db_tuple(model, e) ==
    CASE model = "Transaction" ->
            <<e.id, e.source, e.source_id, e.type, e.created_at, e.account_id,
              e.raw_data>>
      [] model = "OptionOrder" ->
            <<e.id, e.chain_symbol, e.opening_strategy, e.closing_strategy,
              e.direction, e.premium, e.net_amount>>
      [] model = "OptionLeg" ->
            <<e.id, e.order_id, e.strike_price, e.expiration_date, e.option_type,
              e.side, e.position_effect, e.ratio_quantity>>
      [] model = "Execution" ->
            <<e.id, e.order_id, e.leg_id, e.price, e.quantity, e.timestamp,
              e.settlement_date>>
      [] model = "StockOrder" ->
            <<e.id, e.symbol, e.side, e.quantity, e.price, e.average_price>>
      [] model = "Position" ->
            <<e.id, e.source, e.account_id, e.symbol, e.quantity, e.cost_basis,
              e.current_price, e.unrealized_pnl, e.last_updated>>
      [] model = "TransactionLink" ->
            <<e.id, e.opening_transaction_id, e.closing_transaction_id, e.link_type,
              e.created_at>>

\* Faulty variant: Position.from_db_row reads cost_basis and current_price
\* from each other's column.
from_db_row_swapped(model, row) ==
    CASE model = "Transaction" ->
            [id |-> row[1], source |-> row[2], source_id |-> row[3], type |-> row[4],
             created_at |-> row[5], account_id |-> row[6], raw_data |-> row[7]]
      [] model = "OptionOrder" ->
            [id |-> row[1], chain_symbol |-> row[2], opening_strategy |-> row[3],
             closing_strategy |-> row[4], direction |-> row[5], premium |-> row[6],
             net_amount |-> row[7]]
      [] model = "OptionLeg" ->
            [id |-> row[1], order_id |-> row[2], strike_price |-> row[3],
             expiration_date |-> row[4], option_type |-> row[5], side |-> row[6],
             position_effect |-> row[7], ratio_quantity |-> row[8]]
      [] model = "Execution" ->
            [id |-> row[1], order_id |-> row[2], leg_id |-> row[3], price |-> row[4],
             quantity |-> row[5], timestamp |-> row[6], settlement_date |-> row[7]]
      [] model = "StockOrder" ->
            [id |-> row[1], symbol |-> row[2], side |-> row[3], quantity |-> row[4],
             price |-> row[5], average_price |-> row[6]]
      [] model = "Position" ->
            [id |-> row[1], source |-> row[2], account_id |-> row[3],
             symbol |-> row[4], quantity |-> row[5], cost_basis |-> row[7],
             current_price |-> row[6], unrealized_pnl |-> row[8],
             last_updated |-> row[9]]
      [] model = "TransactionLink" ->
            [id |-> row[1], opening_transaction_id |-> row[2],
             closing_transaction_id |-> row[3], link_type |-> row[4],
             created_at |-> row[5]]

\* <Model>.from_db_row(row): the model built from the row's columns.
from_db_row(model, row) ==
    CASE model = "Transaction" ->
            [id |-> row[1], source |-> row[2], source_id |-> row[3], type |-> row[4],
             created_at |-> row[5], account_id |-> row[6], raw_data |-> row[7]]
      [] model = "OptionOrder" ->
            [id |-> row[1], chain_symbol |-> row[2], opening_strategy |-> row[3],
             closing_strategy |-> row[4], direction |-> row[5], premium |-> row[6],
             net_amount |-> row[7]]
      [] model = "OptionLeg" ->
            [id |-> row[1], order_id |-> row[2], strike_price |-> row[3],
             expiration_date |-> row[4], option_type |-> row[5], side |-> row[6],
             position_effect |-> row[7], ratio_quantity |-> row[8]]
      [] model = "Execution" ->
            [id |-> row[1], order_id |-> row[2], leg_id |-> row[3], price |-> row[4],
             quantity |-> row[5], timestamp |-> row[6], settlement_date |-> row[7]]
      [] model = "StockOrder" ->
            [id |-> row[1], symbol |-> row[2], side |-> row[3], quantity |-> row[4],
             price |-> row[5], average_price |-> row[6]]
      [] model = "Position" ->
            [id |-> row[1], source |-> row[2], account_id |-> row[3],
             symbol |-> row[4], quantity |-> row[5], cost_basis |-> row[6],
             current_price |-> row[7], unrealized_pnl |-> row[8],
             last_updated |-> row[9]]
      [] model = "TransactionLink" ->
            [id |-> row[1], opening_transaction_id |-> row[2],
             closing_transaction_id |-> row[3], link_type |-> row[4],
             created_at |-> row[5]]

\* ------------------------------------------------------------------------
\* Keyring and credentials
\* ------------------------------------------------------------------------
CredentialSources == {"robinhood", "ibkr"}

\* _get_service_name(source) = f"com.tradedata.{source}"
_get_service_name(source) == <<"com.tradedata", source>>

\* The keyring entry f"{source}_{field}" of the source's service.
KeyringKey(source, field) ==
    [service |-> _get_service_name(source), username |-> <<source, field>>]

KeyringKeys == {KeyringKey(source, field) :
                    source \in CredentialSources, field \in {"email", "password"}}

KeyringCall(fn, key) == [fn |-> fn, key |-> key]

\* keyring.get_password: the stored value, or None ("" here, equally falsy).
keyring_get_password(store, key) ==
    IF store[key] = NoEntity THEN "" ELSE store[key][1]

keyring_set_password(store, key, value) == [store EXCEPT ![key] = <<value>>]

\* keyring.delete_password raises PasswordDeleteError for an absent entry.
keyring_delete_password(store, key) ==
    IF store[key] = NoEntity
    THEN [store |-> store, raised |-> TRUE]
    ELSE [store |-> [store EXCEPT ![key] = NoEntity], raised |-> FALSE]

\* credentials.store_credentials
store_credentials(store, source, email, password) ==
    IF email = "" \/ password = ""
    THEN [store |-> store, calls |-> << >>, raised |-> "ValueError"]
    ELSE [store |-> keyring_set_password(
                        keyring_set_password(store, KeyringKey(source, "email"), email),
                        KeyringKey(source, "password"), password),
          calls |-> <<KeyringCall("set_password", KeyringKey(source, "email")),
                      KeyringCall("set_password", KeyringKey(source, "password"))>>,
          raised |-> "none"]

\* Faulty variant: PasswordDeleteError is not caught.
delete_credentials_uncaught(store, source) ==
    LET d1 == keyring_delete_password(store, KeyringKey(source, "email"))
        d2 == keyring_delete_password(d1.store, KeyringKey(source, "password"))
        c1 == KeyringCall("delete_password", KeyringKey(source, "email"))
        c2 == KeyringCall("delete_password", KeyringKey(source, "password"))
    IN IF d1.raised
       THEN [store |-> d1.store, calls |-> <<c1>>, raised |-> "PasswordDeleteError"]
       ELSE [store |-> d2.store, calls |-> <<c1, c2>>,
             raised |-> IF d2.raised THEN "PasswordDeleteError" ELSE "none"]

\* credentials.delete_credentials: three try blocks, lines 100-104, 106-110
\* and 112-116, each swallowing PasswordDeleteError.
delete_credentials(store, source) ==
    LET d1 == keyring_delete_password(store, KeyringKey(source, "email"))
        d2 == keyring_delete_password(d1.store, KeyringKey(source, "password"))
        d3 == keyring_delete_password(d2.store, KeyringKey(source, "password"))
    IN [store |-> d3.store,
        calls |-> <<KeyringCall("delete_password", KeyringKey(source, "email")),
                    KeyringCall("delete_password", KeyringKey(source, "password")),
                    KeyringCall("delete_password", KeyringKey(source, "password"))>>,
        raised |-> "none"]

\* `not value` for an Optional[str] option: None or the empty string.
Falsy(option) == option = NoEntity \/ option = <<"">>

\* Faulty variant: the credentials are stored before the login is attempted.
login_store_first(store, source, email, password, force, prompt, login_fails) ==
    LET e == IF email = NoEntity THEN prompt.email ELSE email[1]
        p == IF password = NoEntity THEN prompt.password ELSE password[1]
        st == store_credentials(store, source, e, p)
    IN [store |-> st.store,
        calls |-> st.calls \o <<KeyringCall("create_adapter", [username |-> e, password |-> p])>>,
        login_raised |-> login_fails,
        exit_code |-> IF login_fails \/ st.raised # "none" THEN 1 ELSE 0]

\* The login command.  email / password are the options (Optional), prompt
\* what the user types when asked, login_fails whether create_adapter raises.
login(store, source, email, password, force, prompt, login_fails) ==
    LET lookup == ~force /\ Falsy(email) /\ Falsy(password)
        found == IF lookup
                 THEN get_credentials(
                        [email |-> keyring_get_password(store, KeyringKey(source, "email")),
                         password |-> keyring_get_password(store,
                                                           KeyringKey(source, "password"))])
                 ELSE NoEntity
        email_value == IF found # NoEntity THEN <<found[1].username>> ELSE email
        password_value == IF found # NoEntity THEN <<found[1].password>> ELSE password
        e == IF email_value = NoEntity THEN prompt.email ELSE email_value[1]
        p == IF password_value = NoEntity THEN prompt.password ELSE password_value[1]
        gets == IF lookup
                THEN <<KeyringCall("get_password", KeyringKey(source, "email")),
                       KeyringCall("get_password", KeyringKey(source, "password"))>>
                ELSE << >>
        create == <<KeyringCall("create_adapter", [username |-> e, password |-> p])>>
        st == store_credentials(store, source, e, p)
    IN IF login_fails
       THEN [store |-> store, calls |-> gets \o create, login_raised |-> TRUE,
             exit_code |-> 1]
       ELSE [store |-> st.store, calls |-> gets \o create \o st.calls,
             login_raised |-> FALSE,
             exit_code |-> IF st.raised = "none" THEN 0 ELSE 1]

\* Nothing stored, nothing called yet.
EmptyKeyring ==
    [store |-> [key \in KeyringKeys |-> NoEntity],
     last |-> [fn |-> "none", source |-> "", before |-> [key \in KeyringKeys |-> NoEntity],
               calls |-> << >>, raised |-> "none", login_raised |-> FALSE,
               exit_code |-> 0]]

\* Source names and classes passed to SourceFactory.register.  Only the
\* first two classes derive from DataSourceAdapter.
SourceNames == {"robinhood", "ibkr", "mock"}
AdapterClasses == {"RobinhoodAdapter", "MockAdapter", "NotAnAdapter"}

issubclass_DataSourceAdapter(cls) == cls \in {"RobinhoodAdapter", "MockAdapter"}

\* Names registered so far.
Registered(registry) == DOMAIN registry

\* Faulty variant: a registered name is registered again.
register_overwrite(registry, source_name, adapter_class) ==
    IF ~issubclass_DataSourceAdapter(adapter_class)
    THEN [registry |-> registry, raised |-> "TypeError"]
    ELSE [registry |-> [n \in Registered(registry) \cup {source_name} |->
                          IF n = source_name THEN adapter_class ELSE registry[n]],
          raised |-> "none"]

\* SourceFactory.register: the registry afterwards and the error raised.
register(registry, source_name, adapter_class) ==
    IF source_name \in Registered(registry)
    THEN [registry |-> registry, raised |-> "ValueError"]
    ELSE IF ~issubclass_DataSourceAdapter(adapter_class)
    THEN [registry |-> registry, raised |-> "TypeError"]
    ELSE [registry |-> [n \in Registered(registry) \cup {source_name} |->
                          IF n = source_name THEN adapter_class ELSE registry[n]],
          raised |-> "none"]

\* SourceFactory.__init__: an empty registry.  `first` (history) holds, per
\* name, the first DataSourceAdapter subclass passed to register; `call`
\* (history) the last register call.
NewFactory ==
    [registry |-> << >>, first |-> << >>,
     call |-> [source_name |-> "", adapter_class |-> "", before |-> << >>,
               raised |-> "none"]]

\* No function called yet.
NoProbe == [fn |-> "none", args |-> << >>, result |-> << >>, raised |-> "none"]

\* Two processes that may each call sync_transactions once.
Runs == {1, 2}

\* A run that has not been started.
NoRun == [pc |-> "idle", outcome |-> "none", raw |-> << >>, idx |-> 1,
          transaction |-> NoEntity, children |-> << >>, k |-> 1,
          stored |-> << >>, raced |-> FALSE]

NoRuns == [r \in Runs |-> NoRun]

Init ==
    /\ db = EmptyTables
    /\ conn = EmptyTables
    /\ op = "none"
    /\ pc = "idle"
    /\ outcome = "none"
    /\ kwargs = NoTypes
    /\ raw_transactions = << >>
    /\ raw_positions = << >>
    /\ idx = 1
    /\ transaction = NoEntity
    /\ legs = << >>
    /\ executions = << >>
    /\ k = 1
    /\ stored_transactions = << >>
    /\ stored_positions = << >>
    /\ ncalls = 0
    /\ ndirect = 0
    /\ pre = EmptyTables
    /\ repeat = FALSE
    /\ pos_history = [n |-> 0, clean |-> TRUE]
    /\ creds = NoEntity
    /\ adapter_calls = << >>
    /\ storage = ConnectedStorage(":memory:")
    /\ scopes = << >>
    /\ nstatements = 0
    /\ event = NoEvent
    /\ runs = NoRuns
    /\ factory = NewFactory
    /\ keyring = EmptyKeyring
    /\ probe = NoProbe

\* Processes share a database file, each through a Storage of its own.
InitRuns ==
    /\ db = EmptyTables
    /\ conn = EmptyTables
    /\ op = "none"
    /\ pc = "idle"
    /\ outcome = "none"
    /\ kwargs = NoTypes
    /\ raw_transactions = << >>
    /\ raw_positions = << >>
    /\ idx = 1
    /\ transaction = NoEntity
    /\ legs = << >>
    /\ executions = << >>
    /\ k = 1
    /\ stored_transactions = << >>
    /\ stored_positions = << >>
    /\ ncalls = 0
    /\ ndirect = 0
    /\ pre = EmptyTables
    /\ repeat = FALSE
    /\ pos_history = [n |-> 0, clean |-> TRUE]
    /\ creds = NoEntity
    /\ adapter_calls = << >>
    /\ storage = ConnectedStorage("file")
    /\ scopes = << >>
    /\ nstatements = 0
    /\ event = NoEvent
    /\ runs = NoRuns
    /\ factory = NewFactory
    /\ keyring = EmptyKeyring
    /\ probe = NoProbe

Idle == outcome # "running"

\* The operation that just finished was a sync_transactions call that returned
\* normally after the adapter had given it `raw`.
JustSynced(raw) ==
    op = "sync_transactions" /\ outcome = "ok" /\ raw_transactions = raw

\* ------------------------------------------------------------------------
\* sync_transactions
\* ------------------------------------------------------------------------
\* Errors of the calls made before the loop: credentials.get_credentials,
\* _login_adapter, adapter.extract_transactions / extract_positions.
BeginErrors == {"CredentialsNotFoundError", "LoginError", "ExtractError"}

Running(o, at) == op = o /\ outcome = "running" /\ pc = at

Raise(err, where) == outcome' = err /\ pc' = where

NextRecord == idx' = idx + 1 /\ pc' = "loop"

BeginCall(o) ==
    /\ Idle
    /\ ncalls < MaxCalls
    /\ ncalls' = ncalls + 1
    /\ op' = o
    /\ pre' = db
    /\ idx' = 1
    /\ transaction' = NoEntity
    /\ legs' = << >>
    /\ executions' = << >>
    /\ k' = 1
    /\ stored_transactions' = << >>
    /\ stored_positions' = << >>
    /\ UNCHANGED <<storage_vars, ndirect>>

\* The call itself plus lines 79-93.  sync_transactions declares no `types`
\* parameter, so a call that passes one raises TypeError before the body runs.
SyncTransactionsBegin ==
    /\ UNCHANGED <<login_vars, layer_vars, aux_vars>>
    /\ BeginCall("sync_transactions")
    /\ UNCHANGED <<raw_positions, pos_history>>
    /\ \E kw \in TypeArgs :
        /\ kwargs' = kw
        /\ IF kw.has_types
           THEN Raise("TypeError", "call") /\ raw_transactions' = << >> /\ repeat' = FALSE
           ELSE \/ \E err \in BeginErrors :
                     Raise(err, "begin") /\ raw_transactions' = << >> /\ repeat' = FALSE
                \/ \E raw \in RawOutputs :
                     /\ outcome' = "running"
                     /\ pc' = "loop"
                     /\ raw_transactions' = raw
                     /\ repeat' = JustSynced(raw)

\* Lines 79-93 of a call without a types keyword, the adapter returning
\* records of RecordCatalog.
SyncRecordsBegin ==
    /\ UNCHANGED <<login_vars, layer_vars, aux_vars>>
    /\ BeginCall("sync_transactions")
    /\ UNCHANGED <<raw_positions, pos_history>>
    /\ kwargs' = NoTypes
    /\ \/ \E err \in BeginErrors :
            Raise(err, "begin") /\ raw_transactions' = << >> /\ repeat' = FALSE
       \/ \E raw \in RecordOutputs :
            /\ outcome' = "running"
            /\ pc' = "loop"
            /\ raw_transactions' = raw
            /\ repeat' = JustSynced(raw)

\* Lines 95-99: normalize, validate, dedup check.
SyncNormalize ==
    /\ UNCHANGED <<login_vars, layer_vars, aux_vars>>
    /\ Running("sync_transactions", "loop")
    /\ idx <= Len(raw_transactions)
    /\ \E fail \in BOOLEAN :
        IF fail
        THEN /\ Raise("AdapterError", "normalize_transaction")
             /\ transaction' = NoEntity
             /\ UNCHANGED idx
        ELSE LET t == normalize_transaction(raw_transactions[idx], uuid4(ncalls, idx))
             IN /\ transaction' = <<t>>
                /\ IF ~validate_transaction(t)
                   THEN Raise("ValidationError", "validate_transaction") /\ UNCHANGED idx
                   ELSE IF exists_by_source_id(conn, t.source, t.source_id)
                   THEN NextRecord /\ UNCHANGED outcome
                   ELSE pc' = "create_tx" /\ UNCHANGED <<idx, outcome>>
    /\ UNCHANGED <<storage_vars, legs, executions, k, result_vars, call_vars>>

\* Lines 100-101.
SyncCreateTransaction ==
    /\ UNCHANGED <<login_vars, layer_vars, aux_vars>>
    /\ Running("sync_transactions", "create_tx")
    /\ \E fault \in BOOLEAN :
        LET t == transaction[1]
            res == TransactionRepository_create(conn, db, t, fault)
        IN /\ conn' = res.conn
           /\ db' = res.db
           /\ IF res.raised
              THEN Raise("StorageError", "tx_repo.create") /\ UNCHANGED stored_transactions
              ELSE /\ stored_transactions' = append_stored(stored_transactions, t)
                   /\ pc' = "option_order"
                   /\ UNCHANGED outcome
    /\ UNCHANGED <<loop_vars, stored_positions, call_vars>>

\* Lines 103-106 and the else test of line 118.
SyncOptionOrder ==
    /\ UNCHANGED <<login_vars, layer_vars, aux_vars>>
    /\ Running("sync_transactions", "option_order")
    /\ \E f \in {"none", "adapter", "storage"} :
        IF f = "adapter"
        THEN Raise("AdapterError", "extract_option_order") /\ UNCHANGED storage_vars
        ELSE LET option_order == extract_option_order(raw_transactions[idx], transaction[1].id)
             IN IF option_order = NoEntity
                THEN pc' = "stock_order" /\ UNCHANGED <<outcome, storage_vars>>
                ELSE IF ~validate_option_order(option_order[1])
                THEN Raise("ValidationError", "validate_option_order") /\ UNCHANGED storage_vars
                ELSE LET res == OptionOrderRepository_create(conn, db, option_order[1],
                                                             f = "storage")
                     IN /\ conn' = res.conn
                        /\ db' = res.db
                        /\ IF res.raised
                           THEN Raise("StorageError", "option_order_repo.create")
                           ELSE pc' = "legs" /\ UNCHANGED outcome
    /\ UNCHANGED <<loop_vars, result_vars, call_vars>>

\* Line 108.  option_order.id is the transaction id.
SyncExtractLegs ==
    /\ UNCHANGED <<login_vars, layer_vars, aux_vars>>
    /\ Running("sync_transactions", "legs")
    /\ \E fail \in BOOLEAN :
        IF fail
        THEN Raise("AdapterError", "extract_option_legs") /\ UNCHANGED <<legs, k>>
        ELSE /\ legs' = extract_option_legs(raw_transactions[idx], transaction[1].id,
                                            transaction[1].id)
             /\ k' = 1
             /\ pc' = "leg"
             /\ UNCHANGED outcome
    /\ UNCHANGED <<storage_vars, idx, transaction, executions, result_vars, call_vars>>

\* Lines 109-111, one iteration.
SyncCreateLeg ==
    /\ UNCHANGED <<login_vars, layer_vars, aux_vars>>
    /\ Running("sync_transactions", "leg")
    /\ k <= Len(legs)
    /\ \E fault \in BOOLEAN :
        IF ~validate_option_leg(legs[k])
        THEN Raise("ValidationError", "validate_option_leg") /\ UNCHANGED <<storage_vars, k>>
        ELSE LET res == OptionLegRepository_create(conn, db, legs[k], fault)
             IN /\ conn' = res.conn
                /\ db' = res.db
                /\ IF res.raised
                   THEN Raise("StorageError", "leg_repo.create") /\ UNCHANGED k
                   ELSE k' = k + 1 /\ UNCHANGED <<pc, outcome>>
    /\ UNCHANGED <<idx, transaction, legs, executions, result_vars, call_vars>>

\* Lines 113-114; an empty result ends the iteration of the outer loop.
SyncExtractExecutions ==
    /\ UNCHANGED <<login_vars, layer_vars, aux_vars>>
    /\ Running("sync_transactions", "leg")
    /\ k > Len(legs)
    /\ \E fail \in BOOLEAN :
        IF fail
        THEN /\ Raise("AdapterError", "extract_executions")
             /\ UNCHANGED <<executions, k, idx>>
        ELSE LET leg_ids == [i \in 1..Len(legs) |-> legs[i].id]
                 execs == extract_executions(raw_transactions[idx], transaction[1].id,
                                             leg_ids, transaction[1].id + Len(legs))
             IN /\ executions' = execs
                /\ k' = 1
                /\ IF Len(execs) = 0
                   THEN NextRecord
                   ELSE pc' = "execution" /\ UNCHANGED idx
                /\ UNCHANGED outcome
    /\ UNCHANGED <<storage_vars, transaction, legs, result_vars, call_vars>>

\* Lines 115-117, one iteration; the last one ends the outer iteration.
SyncCreateExecution ==
    /\ UNCHANGED <<login_vars, layer_vars, aux_vars>>
    /\ Running("sync_transactions", "execution")
    /\ k <= Len(executions)
    /\ \E fault \in BOOLEAN :
        IF ~validate_execution(executions[k])
        THEN Raise("ValidationError", "validate_execution") /\ UNCHANGED <<storage_vars, k, idx>>
        ELSE LET res == ExecutionRepository_create(conn, db, executions[k], fault)
             IN /\ conn' = res.conn
                /\ db' = res.db
                /\ IF res.raised
                   THEN Raise("StorageError", "execution_repo.create") /\ UNCHANGED <<k, idx>>
                   ELSE /\ k' = k + 1
                        /\ UNCHANGED outcome
                        /\ IF k = Len(executions)
                           THEN NextRecord
                           ELSE UNCHANGED <<pc, idx>>
    /\ UNCHANGED <<transaction, legs, executions, result_vars, call_vars>>

\* Lines 119-122.
SyncStockOrder ==
    /\ UNCHANGED <<login_vars, layer_vars, aux_vars>>
    /\ Running("sync_transactions", "stock_order")
    /\ \E f \in {"none", "adapter", "storage"} :
        IF f = "adapter"
        THEN Raise("AdapterError", "extract_stock_order") /\ UNCHANGED <<storage_vars, idx>>
        ELSE LET stock_order == extract_stock_order(raw_transactions[idx], transaction[1].id)
             IN IF stock_order = NoEntity
                THEN NextRecord /\ UNCHANGED <<outcome, storage_vars>>
                ELSE IF ~validate_stock_order(stock_order[1])
                THEN /\ Raise("ValidationError", "validate_stock_order")
                     /\ UNCHANGED <<storage_vars, idx>>
                ELSE LET res == StockOrderRepository_create(conn, db, stock_order[1],
                                                            f = "storage")
                     IN /\ conn' = res.conn
                        /\ db' = res.db
                        /\ IF res.raised
                           THEN Raise("StorageError", "stock_repo.create") /\ UNCHANGED idx
                           ELSE NextRecord /\ UNCHANGED outcome
    /\ UNCHANGED <<transaction, legs, executions, k, result_vars, call_vars>>

\* Line 124.
SyncTransactionsReturn ==
    /\ UNCHANGED <<login_vars, layer_vars, aux_vars>>
    /\ Running("sync_transactions", "loop")
    /\ idx > Len(raw_transactions)
    /\ Raise("ok", "return")
    /\ UNCHANGED <<storage_vars, loop_vars, result_vars, call_vars>>

\* ------------------------------------------------------------------------
\* sync_positions
\* ------------------------------------------------------------------------
\* Lines 155-165.
SyncPositionsBegin ==
    /\ UNCHANGED <<login_vars, layer_vars, aux_vars>>
    /\ BeginCall("sync_positions")
    /\ UNCHANGED <<kwargs, raw_transactions, repeat>>
    /\ \/ \E err \in BeginErrors :
            Raise(err, "begin") /\ UNCHANGED <<raw_positions, pos_history>>
       \/ \E raw \in RawPosOutputs :
            /\ outcome' = "running"
            /\ pc' = "loop"
            /\ raw_positions' = raw
            /\ pos_history' = [pos_history EXCEPT
                   !.clean = @ /\ (pos_history.n = 0 \/ raw_positions = raw)]

\* Lines 167-171, one iteration.
SyncPosition ==
    /\ UNCHANGED <<login_vars, layer_vars, aux_vars>>
    /\ Running("sync_positions", "loop")
    /\ idx <= Len(raw_positions)
    /\ \E f \in {"none", "adapter", "storage"} :
        IF f = "adapter"
        THEN /\ Raise("AdapterError", "normalize_position")
             /\ UNCHANGED <<storage_vars, idx, stored_positions>>
        ELSE LET position == normalize_position(raw_positions[idx], uuid4(ncalls, idx))
             IN /\ IF ~validate_position(position)
                   THEN /\ Raise("ValidationError", "validate_position")
                        /\ UNCHANGED <<storage_vars, idx, stored_positions>>
                   ELSE LET res == PositionRepository_create(conn, db, position, f = "storage")
                        IN /\ conn' = res.conn
                           /\ db' = res.db
                           /\ IF res.raised
                              THEN /\ Raise("StorageError", "position_repo.create")
                                   /\ UNCHANGED <<idx, stored_positions>>
                              ELSE /\ stored_positions' = append_stored(stored_positions, position)
                                   /\ idx' = idx + 1
                                   /\ UNCHANGED <<pc, outcome>>
    /\ pos_history' = [pos_history EXCEPT !.clean = @ /\ outcome' = "running"]
    /\ UNCHANGED <<op, kwargs, raw_transactions, raw_positions, ncalls, ndirect, pre, repeat,
                   transaction, legs, executions, k, stored_transactions>>

\* Line 173.
SyncPositionsReturn ==
    /\ UNCHANGED <<login_vars, layer_vars, aux_vars>>
    /\ Running("sync_positions", "loop")
    /\ idx > Len(raw_positions)
    /\ Raise("ok", "return")
    /\ pos_history' = [pos_history EXCEPT !.n = @ + 1]
    /\ UNCHANGED <<storage_vars, loop_vars, result_vars, op, kwargs,
                   raw_transactions, raw_positions, ncalls, ndirect, pre, repeat>>

\* ------------------------------------------------------------------------
\* TransactionRepository.create called directly (conn = None)
\* ------------------------------------------------------------------------
RepoCreateTransaction ==
    /\ UNCHANGED <<login_vars, layer_vars, aux_vars>>
    /\ Idle
    /\ ndirect < MaxDirect
    /\ \E id \in {uuid4(0, ndirect + 1)} \cup Ids(conn.transactions), source \in Sources :
        LET entity == [normalize_transaction(RawStock, id) EXCEPT !.source = source]
            res == TransactionRepository_create(conn, db, entity, FALSE)
        IN /\ conn' = res.conn
           /\ db' = res.db
           /\ transaction' = <<entity>>
           /\ Raise(IF res.raised THEN "IntegrityError" ELSE "ok", "tx_repo.create")
    /\ op' = "create"
    /\ ndirect' = ndirect + 1
    /\ pre' = db
    /\ UNCHANGED <<kwargs, raw_transactions, raw_positions, idx, legs, executions, k,
                   result_vars, ncalls, repeat, pos_history>>

\* ------------------------------------------------------------------------
\* The lines before the loop, statement by statement
\* ------------------------------------------------------------------------
SyncOps == {"sync_transactions", "sync_positions"}

\* A sync call without a types keyword is entered.
SyncCall ==
    /\ UNCHANGED <<layer_vars, aux_vars>>
    /\ \E o \in SyncOps : BeginCall(o)
    /\ outcome' = "running"
    /\ pc' = "get_credentials"
    /\ kwargs' = NoTypes
    /\ raw_transactions' = << >>
    /\ raw_positions' = << >>
    /\ repeat' = FALSE
    /\ creds' = NoEntity
    /\ adapter_calls' = << >>
    /\ UNCHANGED pos_history

\* Lines 79 / 155: username, password = credentials.get_credentials(source)
SyncGetCredentials ==
    /\ UNCHANGED <<layer_vars, aux_vars>>
    /\ op \in SyncOps /\ outcome = "running" /\ pc = "get_credentials"
    /\ \E entry \in KeyringEntries :
        /\ creds' = get_credentials(entry)
        /\ IF creds' = NoEntity
           THEN Raise("CredentialsNotFoundError", "get_credentials")
           ELSE pc' = "login" /\ UNCHANGED outcome
    /\ UNCHANGED <<storage_vars, loop_vars, result_vars, call_vars, adapter_calls>>

\* Lines 81-82 / 157-158: adapter = adapter or create_adapter(source), then
\* _login_adapter(adapter, username, password).
SyncLoginAdapter ==
    /\ UNCHANGED <<layer_vars, aux_vars>>
    /\ op \in SyncOps /\ outcome = "running" /\ pc = "login"
    /\ \E arg \in AdapterArgs, factory_fails \in BOOLEAN, login_fails \in BOOLEAN :
        LET created == IF arg = "None"
                       THEN <<AdapterCall("create_adapter", <<"robinhood">>)>>
                       ELSE << >>
            adapter == IF arg = "None" THEN create_adapter ELSE arg
            res == _login_adapter(adapter, creds[1].username, creds[1].password,
                                  login_fails)
        IN IF arg = "None" /\ factory_fails
           THEN /\ adapter_calls' = adapter_calls \o created
                /\ Raise("FactoryError", "create_adapter")
           ELSE /\ adapter_calls' = adapter_calls \o created \o res.calls
                /\ IF res.raised # "none"
                   THEN Raise(res.raised, "_login_adapter")
                   ELSE pc' = "extract" /\ UNCHANGED outcome
    /\ UNCHANGED <<storage_vars, loop_vars, result_vars, call_vars, creds>>

\* Lines 84 / 160: adapter.extract_transactions(...) / adapter.extract_positions()
SyncExtract ==
    /\ UNCHANGED <<layer_vars, aux_vars>>
    /\ op \in SyncOps /\ outcome = "running" /\ pc = "extract"
    /\ adapter_calls' = Append(adapter_calls,
                               AdapterCall(IF op = "sync_transactions"
                                           THEN "extract_transactions"
                                           ELSE "extract_positions", << >>))
    /\ \/ /\ Raise("ExtractError", "extract")
          /\ UNCHANGED <<raw_transactions, raw_positions>>
       \/ /\ op = "sync_transactions"
          /\ \E raw \in RawOutputs : raw_transactions' = raw
          /\ pc' = "loop"
          /\ UNCHANGED <<outcome, raw_positions>>
       \/ /\ op = "sync_positions"
          /\ \E raw \in RawPosOutputs : raw_positions' = raw
          /\ pc' = "loop"
          /\ UNCHANGED <<outcome, raw_transactions>>
    /\ UNCHANGED <<storage_vars, loop_vars, result_vars, op, kwargs, ncalls, ndirect,
                   pre, repeat, pos_history, creds>>

\* ------------------------------------------------------------------------
\* Storage.transaction() scopes and statements through their handle
\* ------------------------------------------------------------------------
TxA == normalize_transaction(RawStock, uuid4(0, 1))
SoA == extract_stock_order(RawStock, TxA.id)[1]
PosA == normalize_position(RawPosAAPL, uuid4(0, 2))

\* repository.create / update / delete(..., conn=handle) calls of a scope body.
ScopeStatements ==
    {Statement("create", "transactions", TxA),
     Statement("create", "stock_orders", SoA),
     Statement("create", "positions", PosA),
     Statement("update", "positions", [PosA EXCEPT !.quantity = @ + 1]),
     Statement("delete", "transactions", TxA)}

\* The effect of a statement, put on contents T whatever T holds.
Impose(T, stmt) ==
    CASE stmt.verb = "create" ->
            InsertRow([T EXCEPT ![stmt.table] = {r \in @ : r.id # stmt.row.id}],
                      stmt.table, stmt.row)
      [] stmt.verb = "update" -> UpdateRow(T, stmt.table, stmt.row)
      [] stmt.verb = "delete" -> DeleteRow(T, stmt.table, stmt.row.id, TRUE)

RECURSIVE Replay(_, _)
Replay(T, stmts) ==
    IF stmts = << >> THEN T ELSE Replay(Impose(T, Head(stmts)), Tail(stmts))

StorageEvent(kind, scope, stmt, raised) ==
    [kind |-> kind, depth |-> Len(scopes), db_before |-> db, conn_before |-> conn,
     scope |-> scope, stmt |-> stmt, raised |-> raised]

\* Lines 104-106: `with storage.transaction() as conn:` is entered.  A scope
\* records the connection's view at entry, the statements of its body, and
\* (history) the committed contents it started from plus what scopes closed
\* inside it have committed of their own statements.
TransactionEnter ==
    /\ Len(scopes) < MaxScopes
    /\ scopes' = Append(scopes, [entry_conn |-> conn, expect |-> db, stmts |-> << >>])
    /\ event' = StorageEvent("enter", NoEntity, NoEntity, FALSE)
    /\ op' = "transaction"
    /\ pc' = "body"
    /\ outcome' = "running"
    /\ UNCHANGED <<storage_vars, storage, nstatements, loop_vars, result_vars, kwargs,
                   raw_transactions, raw_positions, ncalls, ndirect, pre, repeat,
                   pos_history, login_vars, aux_vars>>

\* A repository call of the innermost scope's body with conn=handle:
\* conn.execute(...) and nothing else.
ScopeExecute ==
    /\ Len(scopes) > 0
    /\ nstatements < MaxStatements
    /\ \E stmt \in ScopeStatements :
        LET res == Execute(conn, stmt, storage.foreign_keys)
            top == scopes[Len(scopes)]
        IN /\ conn' = res.contents
           /\ scopes' = IF res.raised THEN scopes
                        ELSE [scopes EXCEPT ![Len(scopes)].stmts = Append(@, stmt)]
           /\ event' = StorageEvent("statement", <<top>>, <<stmt>>, res.raised)
    /\ nstatements' = nstatements + 1
    /\ UNCHANGED <<db, storage, op, pc, outcome, loop_vars, result_vars, kwargs,
                   raw_transactions, raw_positions, ncalls, ndirect, pre, repeat,
                   pos_history, login_vars, aux_vars>>

\* Lines 107-110: the innermost scope ends, by conn.commit() when its body
\* finished and by conn.rollback() when an exception left it.
TransactionExit ==
    /\ Len(scopes) > 0
    /\ \E error \in BOOLEAN :
        LET top == scopes[Len(scopes)]
            res == IF error THEN transaction_rollback(conn, db)
                   ELSE transaction_commit(conn, db)
        IN /\ conn' = res.conn
           /\ db' = res.db
           /\ scopes' = [i \in 1..(Len(scopes) - 1) |->
                            IF error THEN scopes[i]
                            ELSE [scopes[i] EXCEPT !.expect = Replay(@, top.stmts)]]
           /\ event' = StorageEvent(IF error THEN "rollback" ELSE "commit",
                                    <<top>>, NoEntity, error)
           /\ pc' = IF error THEN "rollback" ELSE "commit"
           /\ outcome' = IF Len(scopes) > 1 THEN "running"
                         ELSE IF error THEN "Exception" ELSE "ok"
    /\ UNCHANGED <<storage, nstatements, op, loop_vars, result_vars, kwargs,
                   raw_transactions, raw_positions, ncalls, ndirect, pre, repeat,
                   pos_history, login_vars, aux_vars>>

\* ------------------------------------------------------------------------
\* Storage life cycle and repository calls on the schema
\* ------------------------------------------------------------------------
TxO == normalize_transaction(RawOption, uuid4(0, 3))
OoO == extract_option_order(RawOption, TxO.id)[1]
LegsO == extract_option_legs(RawOption, OoO.id, TxO.id)
ExecO == extract_executions(RawOption, TxO.id, <<LegsO[1].id, LegsO[2].id>>,
                            TxO.id + Len(LegsO))[1]

\* A database left by earlier runs: an option order with its legs and
\* execution, and a stock order.
StoredGraph ==
    [transactions |-> {TxO, TxA}, option_orders |-> {OoO},
     option_legs |-> {LegsO[1], LegsO[2]}, executions |-> {ExecO},
     stock_orders |-> {SoA}, positions |-> {}]

\* repository.create / update / delete(...) calls with conn = None.
SchemaStatements ==
    {Statement("create", "transactions", TxO),
     Statement("create", "option_orders", OoO),
     Statement("create", "option_legs", LegsO[1]),
     Statement("create", "option_legs", LegsO[2]),
     Statement("create", "executions", ExecO),
     Statement("create", "transactions", TxA),
     Statement("create", "stock_orders", SoA),
     Statement("update", "executions", [ExecO EXCEPT !.leg_id = LegsO[2].id]),
     Statement("update", "option_legs", [LegsO[2] EXCEPT !.order_id = TxA.id]),
     Statement("delete", "transactions", TxO),
     Statement("delete", "transactions", TxA),
     Statement("delete", "option_orders", OoO),
     Statement("delete", "option_legs", LegsO[1]),
     Statement("delete", "option_legs", LegsO[2])}

\* Before Storage(db_path) is constructed: the path is :memory:, or a file
\* that does not exist, exists without tables, or holds an initialized
\* database, empty or with rows.
InitSchema ==
    /\ \E st \in {NewStorage(":memory:", "none"), NewStorage("file", "absent"),
                  NewStorage("file", "empty"), NewStorage("file", "initialized")} :
        /\ storage = st
        /\ db \in IF st.file = "initialized" THEN {EmptyTables, StoredGraph}
                  ELSE {EmptyTables}
    /\ conn = db
    /\ pre = db
    /\ op = "none"
    /\ pc = "new"
    /\ outcome = "none"
    /\ kwargs = NoTypes
    /\ raw_transactions = << >>
    /\ raw_positions = << >>
    /\ idx = 1
    /\ transaction = NoEntity
    /\ legs = << >>
    /\ executions = << >>
    /\ k = 1
    /\ stored_transactions = << >>
    /\ stored_positions = << >>
    /\ ncalls = 0
    /\ ndirect = 0
    /\ repeat = FALSE
    /\ pos_history = [n |-> 0, clean |-> TRUE]
    /\ creds = NoEntity
    /\ adapter_calls = << >>
    /\ scopes = << >>
    /\ nstatements = 0
    /\ event = NoEvent
    /\ runs = NoRuns
    /\ factory = NewFactory
    /\ keyring = EmptyKeyring
    /\ probe = NoProbe

schema_frame == <<loop_vars, result_vars, kwargs, raw_transactions, raw_positions,
                  ncalls, ndirect, pre, repeat, pos_history, login_vars, scopes,
                  nstatements, aux_vars>>

\* Storage.__init__, lines 34-36.
StorageConstruct ==
    /\ pc = "new"
    /\ storage' = _ensure_database_initialized(storage)
    /\ op' = "Storage"
    /\ pc' = "constructed"
    /\ outcome' = "ok"
    /\ event' = StorageEvent("construct", NoEntity, NoEntity, FALSE)
    /\ UNCHANGED <<storage_vars, schema_frame>>

\* storage.connect() while no connection is cached.
StorageConnect ==
    /\ pc # "new"
    /\ ~storage.connection
    /\ storage.connects < MaxConnects
    /\ storage' = connect(storage)
    /\ op' = "connect"
    /\ pc' = "connected"
    /\ outcome' = "ok"
    /\ event' = StorageEvent("connect", NoEntity, NoEntity, FALSE)
    /\ UNCHANGED <<storage_vars, schema_frame>>

\* storage.close()
StorageClose ==
    /\ pc # "new"
    /\ storage.connection
    /\ storage' = close(storage)
    /\ db' = IF storage.path = ":memory:" THEN EmptyTables ELSE db
    /\ conn' = db'
    /\ op' = "close"
    /\ pc' = "closed"
    /\ outcome' = "ok"
    /\ event' = StorageEvent("close", NoEntity, NoEntity, FALSE)
    /\ UNCHANGED schema_frame

\* A repository call with conn = None: storage.transaction() connects if
\* need be, the statement runs, and the scope commits or rolls back.
RepositoryCall ==
    /\ pc # "new"
    /\ storage.connection \/ storage.connects < MaxConnects
    /\ storage' = connect(storage)
    /\ \E stmt \in SchemaStatements :
        LET res == IF stmt.table \in storage'.tables
                   THEN Execute(conn, stmt, storage'.foreign_keys)
                   ELSE [contents |-> conn, raised |-> TRUE]
            end == IF res.raised THEN transaction_rollback(conn, db)
                   ELSE transaction_commit(res.contents, db)
        IN /\ conn' = end.conn
           /\ db' = end.db
           /\ event' = StorageEvent("call", NoEntity, <<stmt>>, res.raised)
           /\ outcome' = IF ~res.raised THEN "ok"
                         ELSE IF stmt.table \in storage'.tables THEN "IntegrityError"
                         ELSE "OperationalError"
    /\ op' = "repository"
    /\ pc' = "called"
    /\ UNCHANGED schema_frame

\* ------------------------------------------------------------------------
\* sync_transactions runs in separate processes on one database file
\* ------------------------------------------------------------------------
\* Lines 103-122 for one record: the child rows in the order the loop body
\* creates them, each by a repository call that commits on its own.
SyncChildren(raw, t) ==
    LET option_order == extract_option_order(raw, t.id)
        stock_order == extract_stock_order(raw, t.id)
        ls == extract_option_legs(raw, t.id, t.id)
        es == extract_executions(raw, t.id, [i \in 1..Len(ls) |-> ls[i].id],
                                 t.id + Len(ls))
    IN IF option_order # NoEntity
       THEN <<Statement("create", "option_orders", option_order[1])>>
            \o [i \in 1..Len(ls) |-> Statement("create", "option_legs", ls[i])]
            \o [i \in 1..Len(es) |-> Statement("create", "executions", es[i])]
       ELSE IF stock_order # NoEntity
       THEN <<Statement("create", "stock_orders", stock_order[1])>>
       ELSE << >>

\* The validate_* call made before each child is created.
ValidChild(stmt) ==
    CASE stmt.table = "option_orders" -> validate_option_order(stmt.row)
      [] stmt.table = "option_legs" -> validate_option_leg(stmt.row)
      [] stmt.table = "executions" -> validate_execution(stmt.row)
      [] stmt.table = "stock_orders" -> validate_stock_order(stmt.row)

base_frame == <<op, pc, outcome, kwargs, raw_transactions, raw_positions, loop_vars,
                result_vars, ncalls, ndirect, pre, repeat, pos_history, login_vars,
                layer_vars>>

runs_frame == <<base_frame, factory, keyring, probe>>

RunAt(r, at) == runs[r].outcome = "running" /\ runs[r].pc = at

\* Every connection sees what has been committed.
Committed(T) == db' = T /\ conn' = T

\* Lines 79-93 of run r.
RunBegin(r) ==
    /\ runs[r].pc = "idle"
    /\ \/ \E err \in BeginErrors :
            runs' = [runs EXCEPT ![r].pc = "begin", ![r].outcome = err]
       \/ \E raw \in RawOutputs :
            runs' = [runs EXCEPT ![r].pc = "loop", ![r].outcome = "running",
                                 ![r].raw = raw]
    /\ UNCHANGED <<storage_vars, runs_frame>>

\* Lines 95-99 of run r: normalize, validate, existence check.
RunCheck(r) ==
    /\ RunAt(r, "loop")
    /\ runs[r].idx <= Len(runs[r].raw)
    /\ LET t == normalize_transaction(runs[r].raw[runs[r].idx], uuid4(r, runs[r].idx))
       IN runs' = [runs EXCEPT ![r] =
                    IF ~validate_transaction(t)
                    THEN [@ EXCEPT !.outcome = "ValidationError",
                                   !.pc = "validate_transaction", !.transaction = <<t>>]
                    ELSE IF exists_by_source_id(db, t.source, t.source_id)
                    THEN [@ EXCEPT !.idx = @ + 1, !.transaction = <<t>>]
                    ELSE [@ EXCEPT !.pc = "create_tx", !.transaction = <<t>>]]
    /\ UNCHANGED <<storage_vars, runs_frame>>

\* Lines 100-101 of run r.  `raced` records that the key was committed by
\* another run after this run's existence check.
RunCreateTransaction(r) ==
    /\ RunAt(r, "create_tx")
    /\ LET t == runs[r].transaction[1]
           res == Execute(db, Statement("create", "transactions", t),
                          storage.foreign_keys)
           cs == SyncChildren(t.raw_data, t)
       IN /\ Committed(res.contents)
          /\ runs' = [runs EXCEPT ![r] =
                       IF res.raised
                       THEN [@ EXCEPT !.outcome = "IntegrityError",
                                      !.pc = "tx_repo.create",
                                      !.raced = exists_by_source_id(db, t.source,
                                                                    t.source_id)]
                       ELSE IF cs = << >>
                       THEN [@ EXCEPT !.stored = append_stored(@, t), !.idx = @ + 1,
                                      !.pc = "loop"]
                       ELSE [@ EXCEPT !.stored = append_stored(@, t), !.children = cs,
                                      !.k = 1, !.pc = "children"]]
    /\ UNCHANGED runs_frame

\* One child of lines 103-122 of run r; the last one ends the iteration.
RunCreateChild(r) ==
    /\ RunAt(r, "children")
    /\ LET stmt == runs[r].children[runs[r].k]
           res == IF ValidChild(stmt) THEN Execute(db, stmt, storage.foreign_keys)
                  ELSE [contents |-> db, raised |-> TRUE]
       IN /\ Committed(res.contents)
          /\ runs' = [runs EXCEPT ![r] =
                       IF ~ValidChild(stmt)
                       THEN [@ EXCEPT !.outcome = "ValidationError", !.pc = "validate_child"]
                       ELSE IF res.raised
                       THEN [@ EXCEPT !.outcome = "IntegrityError", !.pc = "child_repo.create"]
                       ELSE IF runs[r].k = Len(runs[r].children)
                       THEN [@ EXCEPT !.idx = @ + 1, !.pc = "loop"]
                       ELSE [@ EXCEPT !.k = @ + 1]]
    /\ UNCHANGED runs_frame

\* Line 124 of run r.
RunReturn(r) ==
    /\ RunAt(r, "loop")
    /\ runs[r].idx > Len(runs[r].raw)
    /\ runs' = [runs EXCEPT ![r].outcome = "ok", ![r].pc = "return"]
    /\ UNCHANGED <<storage_vars, runs_frame>>

\* ------------------------------------------------------------------------
\* SourceFactory
\* ------------------------------------------------------------------------
\* factory.register(source_name, adapter_class)
FactoryRegister ==
    /\ \E source_name \in SourceNames, adapter_class \in AdapterClasses :
        LET res == register(factory.registry, source_name, adapter_class)
            noted == /\ source_name \notin DOMAIN factory.first
                     /\ issubclass_DataSourceAdapter(adapter_class)
        IN factory' =
            [registry |-> res.registry,
             first |-> IF noted
                       THEN [n \in DOMAIN factory.first \cup {source_name} |->
                               IF n = source_name THEN adapter_class
                               ELSE factory.first[n]]
                       ELSE factory.first,
             call |-> [source_name |-> source_name, adapter_class |-> adapter_class,
                       before |-> factory.registry, raised |-> res.raised]]
    /\ UNCHANGED <<storage_vars, base_frame, runs, keyring, probe>>

\* ------------------------------------------------------------------------
\* Credentials functions and the login command
\* ------------------------------------------------------------------------
EmailValues == {"user", "other"}
PasswordValues == {"pw"}

KeyringDone(fn, source, res, login_raised, exit_code) ==
    /\ keyring' = [store |-> res.store,
                   last |-> [fn |-> fn, source |-> source, before |-> keyring.store,
                             calls |-> res.calls, raised |-> res.raised,
                             login_raised |-> login_raised, exit_code |-> exit_code]]
    /\ UNCHANGED <<storage_vars, base_frame, runs, factory, probe>>

\* credentials.store_credentials(source, email, password)
StoreCredentials ==
    \E source \in CredentialSources, email \in EmailValues \cup {""},
       password \in PasswordValues \cup {""} :
        KeyringDone("store_credentials", source,
                    store_credentials(keyring.store, source, email, password), FALSE, 0)

\* credentials.delete_credentials(source)
DeleteCredentials ==
    \E source \in CredentialSources :
        KeyringDone("delete_credentials", source,
                    delete_credentials(keyring.store, source), FALSE, 0)

\* One entry removed in the system keyring itself, outside the program.
KeyringEntryRemoved ==
    \E key \in KeyringKeys :
        /\ keyring.store[key] # NoEntity
        /\ KeyringDone("keyring", key.username[1],
                       [store |-> keyring_delete_password(keyring.store, key).store,
                        calls |-> << >>, raised |-> "none"], FALSE, 0)

\* tradedata login SOURCE [--email E] [--password P] [--force]
LoginCommand ==
    \E source \in CredentialSources, force \in BOOLEAN, login_fails \in BOOLEAN,
       email \in {NoEntity, <<"">>, <<"other">>},
       password \in {NoEntity, <<"">>, <<"pw">>} :
        LET res == login(keyring.store, source, email, password, force,
                         [email |-> "user", password |-> "pw"], login_fails)
        IN KeyringDone("login", source,
                       [store |-> res.store, calls |-> res.calls, raised |-> "none"],
                       res.login_raised, res.exit_code)

\* ------------------------------------------------------------------------
\* Adapter and model functions called on their own
\* ------------------------------------------------------------------------
\* A call about to be made, and the call made.
Pending(fn, args) == [fn |-> fn, args |-> args, result |-> << >>, raised |-> "pending"]

Returns(fn, result, raised) ==
    /\ probe.fn = fn
    /\ probe.raised = "pending"
    /\ probe' = [probe EXCEPT !.result = result, !.raised = raised]
    /\ UNCHANGED <<storage_vars, base_frame, runs, factory, keyring>>

RawExecLate == [price |-> 3, quantity |-> 4, timestamp |-> NowTs]

\* Argument lists: raw executions, and leg ids (the empty one for None / []).
RawExecutionLists == SeqsUpTo({RawExec, RawExecLate}, MaxExecutions)
LegIdLists == {[i \in 1..n |-> 30 + i] : n \in 0..MaxExecutions}

ExtractExecutionsCalls ==
    {Pending("extract_executions",
             [raw |-> [RawOption EXCEPT !.executions = raw_executions],
              transaction_id |-> 30, leg_ids |-> leg_ids]) :
        raw_executions \in RawExecutionLists, leg_ids \in LegIdLists}

\* adapter.extract_executions(raw_transaction, transaction_id, leg_ids)
CallExtractExecutions ==
    Returns("extract_executions",
            extract_executions(probe.args.raw, probe.args.transaction_id,
                               probe.args.leg_ids, 40),
            "none")

\* Raw records with a timestamp, and date arguments with and without a time.
StampedRecords ==
    {[id |-> "stk-123", created_at |-> IsoString(day, TRUE, tick)] :
        day \in 1..MaxDay, tick \in 0..LastTick}

DateArgs ==
    {NoEntity} \cup {<<IsoString(day, FALSE, 0)>> : day \in 1..MaxDay}
               \cup {<<IsoString(day, TRUE, tick)>> : day \in 1..MaxDay, tick \in 0..LastTick}

ExtractTransactionsCalls ==
    {Pending("extract_transactions",
             [transactions |-> txs, start_date |-> start_date, end_date |-> end_date]) :
        txs \in SeqsUpTo(StampedRecords, MaxStamped), start_date \in DateArgs,
        end_date \in DateArgs}

\* adapter.extract_transactions(start_date, end_date), the API having
\* returned probe.args.transactions.
CallExtractTransactions ==
    Returns("extract_transactions",
            extract_transactions(probe.args.transactions, probe.args.start_date,
                                 probe.args.end_date),
            "none")

\* Raw records with and without a symbol key.
ExtractStockOrderCalls ==
    {Pending("extract_stock_order",
             [raw |-> [RawStock EXCEPT !.symbol = symbol, !.type = type, !.side = side,
                                       !.instrument = instrument],
              transaction_id |-> 30]) :
        symbol \in {"", "MSFT"}, type \in {"", "crypto_order", "dividend_payment"},
        side \in {"buy", "sell"}, instrument \in {"", "instruments/msft"}}

\* adapter.extract_stock_order(raw_transaction, transaction_id); the function
\* has no raise statement.
CallExtractStockOrder ==
    Returns("extract_stock_order",
            extract_stock_order(probe.args.raw, probe.args.transaction_id), "none")

\* Optional[T]: None or a value.
OptionalOf(S) == {NoEntity} \cup {<<x>> : x \in S}

\* Values of the seven models; every Optional field is None in some of them.
ModelValues(model) ==
    CASE model = "Transaction" ->
            [id : {"t-1"}, source : Sources, source_id : {"stk-123"}, type : {"stock"},
             created_at : {ValidTs}, account_id : OptionalOf({"acct-1"}),
             raw_data : {"{}"}]
      [] model = "OptionOrder" ->
            [id : {"t-1"}, chain_symbol : {"AAPL"},
             opening_strategy : OptionalOf({"vertical_call_spread"}),
             closing_strategy : OptionalOf({"vertical_call_spread"}),
             direction : OptionalOf({"debit"}), premium : OptionalOf({2}),
             net_amount : OptionalOf({3})]
      [] model = "OptionLeg" ->
            [id : {"l-1"}, order_id : {"t-1"}, strike_price : {150},
             expiration_date : {ValidTs}, option_type : {"call", "put"},
             side : {"buy", "sell"}, position_effect : {"open"}, ratio_quantity : {1}]
      [] model = "Execution" ->
            [id : {"e-1"}, order_id : {"t-1"}, leg_id : OptionalOf({"l-1"}),
             price : {2}, quantity : {10}, timestamp : {ValidTs},
             settlement_date : OptionalOf({ValidTs})]
      [] model = "StockOrder" ->
            [id : {"t-1"}, symbol : {"MSFT"}, side : {"buy"}, quantity : {5},
             price : OptionalOf({150}), average_price : OptionalOf({151})]
      [] model = "Position" ->
            [id : {"p-1"}, source : {"robinhood"}, account_id : OptionalOf({"acct-1"}),
             symbol : {"AAPL"}, quantity : {10}, cost_basis : OptionalOf({1500}),
             current_price : OptionalOf({155}), unrealized_pnl : OptionalOf({50}),
             last_updated : {ValidTs}]
      [] model = "TransactionLink" ->
            [id : {"k-1"}, opening_transaction_id : {"t-1"},
             closing_transaction_id : {"t-2"}, link_type : OptionalOf({"roll"}),
             created_at : {ValidTs}]

Models == {"Transaction", "OptionOrder", "OptionLeg", "Execution", "StockOrder",
           "Position", "TransactionLink"}

RoundTripCalls ==
    UNION {{Pending("round_trip", [model |-> model, entity |-> e]) :
                e \in ModelValues(model)} : model \in Models}

\* Model.from_db_row(entity.to_db_tuple())
CallRoundTrip ==
    Returns("round_trip",
            <<from_db_row(probe.args.model, to_db_tuple(probe.args.model, probe.args.entity))>>,
            "none")

\* Entities handed to the validators: every combination of valid, boundary
\* and invalid values of the numeric fields, with one other field that may
\* be invalid as well.
ValidatorEntities(model) ==
    CASE model = "OptionLeg" ->
            [id : {Uuid, "leg-1"}, order_id : {Uuid}, strike_price : {-1, 0, 150},
             expiration_date : {ValidTs}, option_type : {"call"},
             side : {"buy", "hold"}, position_effect : {"open"},
             ratio_quantity : {-1, 0, 1}]
      [] model = "Execution" ->
            [id : {Uuid}, order_id : {Uuid}, leg_id : {NoEntity, <<Uuid>>},
             price : {-1, 0, 2}, quantity : {-1, 0, 10},
             timestamp : {ValidTs, BadTs}, settlement_date : {NoEntity}]
      [] model = "StockOrder" ->
            [id : {Uuid}, symbol : {"MSFT"}, side : {"buy", "hold"},
             quantity : {-1, 0, 5}, price : {NoEntity, <<-1>>, <<0>>, <<150>>},
             average_price : {NoEntity, <<-1>>, <<0>>}]

ValidatedModels == {"OptionLeg", "Execution", "StockOrder"}

ValidateCalls ==
    UNION {{Pending("validate", [model |-> model, entity |-> e]) :
                e \in ValidatorEntities(model)} : model \in ValidatedModels}

\* validate_option_leg(leg), validate_execution(execution) or
\* validate_stock_order(order).
CallValidate ==
    LET message == validate_message(probe.args.model, probe.args.entity)
    IN Returns("validate", message,
               IF message = "none" THEN "none" ELSE "ValidationError")

\* Stored transactions as the listing sees them.
TxOld == [id |-> "tx-old", type |-> "stock", created_at |-> IsoString(0, TRUE, 0)]
TxMid == [id |-> "tx-mid", type |-> "stock", created_at |-> IsoString(MaxDay - 1, TRUE, 1)]
TxNew == [id |-> "tx-new", type |-> "stock", created_at |-> IsoString(MaxDay, TRUE, 0)]
TxOpt == [id |-> "tx-opt", type |-> "option", created_at |-> IsoString(MaxDay, TRUE, 1)]
TxBad == [id |-> "tx-bad", type |-> "stock",
          created_at |-> IsoString(MaxDay, TRUE, LastTick + 1)]
ListedCatalog == {TxOld, TxMid, TxNew, TxOpt, TxBad}

\* Lists without repetition, in any order.
FindAllOutputs ==
    {q \in SeqsUpTo(ListedCatalog, MaxListed) :
        \A i, j \in 1..Len(q) : i # j => q[i] # q[j]}

ListKwargs ==
    {[names |-> {"transaction_type", "days", "storage"} \cup extra,
      transaction_type |-> type, days |-> days, last |-> last] :
        type \in OptionalOf({"stock"}), days \in OptionalOf({1}),
        extra \in {{}, {"last"}}, last \in OptionalOf({1, 2})}

ListTransactionsCalls ==
    {Pending("list_transactions", [kwargs |-> kw, find_all |-> rows]) :
        kw \in {x \in ListKwargs : x.last # NoEntity => "last" \in x.names},
        rows \in FindAllOutputs}

\* listing.list_transactions(transaction_type=..., days=..., [last=...])
CallListTransactions ==
    LET res == list_transactions(probe.args.kwargs, probe.args.find_all)
    IN Returns("list_transactions", res.result, res.raised)

\* Raw records with every combination of the fields the classification reads.
DetermineTypeCalls ==
    {Pending("_determine_transaction_type",
             [raw |-> [RawStock EXCEPT !.has_legs = has_legs, !.instrument = instrument,
                                       !.symbol = symbol, !.type = type]]) :
        has_legs \in BOOLEAN,
        instrument \in {"", "instruments/msft", "options/instruments/aapl"},
        symbol \in {"", "MSFT"},
        type \in {"", "market", "crypto_order", "Crypto", "dividend_payment",
                  "crypto_dividend"}}

\* adapter._determine_transaction_type(raw_transaction)
CallDetermineTransactionType ==
    Returns("_determine_transaction_type", _determine_transaction_type(probe.args.raw),
            "none")

FunctionCalls ==
    ExtractExecutionsCalls \cup ExtractTransactionsCalls \cup ExtractStockOrderCalls
        \cup RoundTripCalls \cup ValidateCalls \cup ListTransactionsCalls
        \cup DetermineTypeCalls

\* ------------------------------------------------------------------------
\* Specification
\* ------------------------------------------------------------------------
Next ==
    \/ SyncTransactionsBegin
    \/ SyncNormalize
    \/ SyncCreateTransaction
    \/ SyncOptionOrder
    \/ SyncExtractLegs
    \/ SyncCreateLeg
    \/ SyncExtractExecutions
    \/ SyncCreateExecution
    \/ SyncStockOrder
    \/ SyncTransactionsReturn
    \/ RepoCreateTransaction

Spec == Init /\ [][Next]_vars

\* sync_positions on its own: it reads and writes the positions table only.
NextPositions ==
    \/ SyncPositionsBegin
    \/ SyncPosition
    \/ SyncPositionsReturn

SpecPositions == Init /\ [][NextPositions]_vars

\* Both sync functions with the lines before the loop taken one at a time.
NextLogin ==
    \/ SyncCall
    \/ SyncGetCredentials
    \/ SyncLoginAdapter
    \/ SyncExtract
    \/ SyncNormalize
    \/ SyncCreateTransaction
    \/ SyncOptionOrder
    \/ SyncExtractLegs
    \/ SyncCreateLeg
    \/ SyncExtractExecutions
    \/ SyncCreateExecution
    \/ SyncStockOrder
    \/ SyncTransactionsReturn
    \/ SyncPosition
    \/ SyncPositionsReturn

SpecLogin == Init /\ [][NextLogin]_vars

\* Transaction scopes on one Storage and the statements made inside them.
NextStorage ==
    \/ TransactionEnter
    \/ ScopeExecute
    \/ TransactionExit

SpecStorage == Init /\ [][NextStorage]_vars

\* One Storage from its construction on, used through repository calls.
NextSchema ==
    \/ StorageConstruct
    \/ StorageConnect
    \/ StorageClose
    \/ RepositoryCall

SpecSchema == InitSchema /\ [][NextSchema]_vars

\* Two sync_transactions runs whose repository calls interleave.
NextRuns ==
    \/ \E r \in Runs : RunBegin(r)
    \/ \E r \in Runs : RunCheck(r)
    \/ \E r \in Runs : RunCreateTransaction(r)
    \/ \E r \in Runs : RunCreateChild(r)
    \/ \E r \in Runs : RunReturn(r)

SpecRuns == InitRuns /\ [][NextRuns]_vars

\* register calls on one SourceFactory.
NextFactory == FactoryRegister

SpecFactory == Init /\ [][NextFactory]_vars

\* The credentials functions and the login command on one keyring.
NextCredentials ==
    \/ StoreCredentials
    \/ DeleteCredentials
    \/ KeyringEntryRemoved
    \/ LoginCommand

SpecCredentials == Init /\ [][NextCredentials]_vars

\* sync_transactions over records whose children fail validation or do not
\* match the record's type, and sync_positions.
NextRecords ==
    \/ SyncRecordsBegin
    \/ SyncNormalize
    \/ SyncCreateTransaction
    \/ SyncOptionOrder
    \/ SyncExtractLegs
    \/ SyncCreateLeg
    \/ SyncExtractExecutions
    \/ SyncCreateExecution
    \/ SyncStockOrder
    \/ SyncTransactionsReturn
    \/ SyncPositionsBegin
    \/ SyncPosition
    \/ SyncPositionsReturn

SpecRecords == Init /\ [][NextRecords]_vars

\* One function call, its arguments drawn from the argument lists.
InitFunctions ==
    /\ db = EmptyTables
    /\ conn = EmptyTables
    /\ op = "none"
    /\ pc = "idle"
    /\ outcome = "none"
    /\ kwargs = NoTypes
    /\ raw_transactions = << >>
    /\ raw_positions = << >>
    /\ idx = 1
    /\ transaction = NoEntity
    /\ legs = << >>
    /\ executions = << >>
    /\ k = 1
    /\ stored_transactions = << >>
    /\ stored_positions = << >>
    /\ ncalls = 0
    /\ ndirect = 0
    /\ pre = EmptyTables
    /\ repeat = FALSE
    /\ pos_history = [n |-> 0, clean |-> TRUE]
    /\ creds = NoEntity
    /\ adapter_calls = << >>
    /\ storage = ConnectedStorage(":memory:")
    /\ scopes = << >>
    /\ nstatements = 0
    /\ event = NoEvent
    /\ runs = NoRuns
    /\ factory = NewFactory
    /\ keyring = EmptyKeyring
    /\ probe \in FunctionCalls

\* Calls of single adapter and model functions.
NextFunctions ==
    \/ CallExtractExecutions
    \/ CallExtractTransactions
    \/ CallExtractStockOrder
    \/ CallRoundTrip
    \/ CallValidate
    \/ CallListTransactions
    \/ CallDetermineTransactionType

SpecFunctions == InitFunctions /\ [][NextFunctions]_vars

\* ------------------------------------------------------------------------
\* Properties
\* ------------------------------------------------------------------------
SyncTx == op = "sync_transactions"

Range(seq) == {seq[i] : i \in 1..Len(seq)}

\* Rows of table `name` that belong to the record whose Transaction id is `id`.
RecordRows(T, id) ==
    [transactions |-> {r \in T.transactions : r.id = id},
     option_orders |-> {r \in T.option_orders : r.id = id},
     option_legs |-> {r \in T.option_legs : r.order_id = id},
     executions |-> {r \in T.executions : r.order_id = id},
     stock_orders |-> {r \in T.stock_orders : r.id = id}]

NoRows == [transactions |-> {}, option_orders |-> {}, option_legs |-> {},
           executions |-> {}, stock_orders |-> {}]

NothingStoredFor(T, id) == RecordRows(T, id) = NoRows

ChildRows(T, id) == [RecordRows(T, id) EXCEPT !.transactions = {}]

RowCounts(T) == [name \in TableNames |-> Cardinality(T[name])]

KeyIn(T, source, source_id) ==
    \E t \in T.transactions : t.source = source /\ t.source_id = source_id

\* The raw record's Transaction passes validation.
ValidRaw(raw) == validate_transaction(normalize_transaction(raw, 0))

\* The raw record's Transaction breaks a validation rule.
BrokenRaw(raw) == raw.id = "" \/ raw.created_at = BadTs

\* The Transaction and every child the adapter yields for it are stored.
FullyStored(T, t) ==
    LET raw == t.raw_data
        rows == RecordRows(T, t.id)
    IN /\ rows.transactions = {t}
       /\ IF extract_option_order(raw, t.id) # NoEntity
          THEN /\ Cardinality(rows.option_orders) = 1
               /\ Cardinality(rows.option_legs) = Len(raw.legs)
               /\ Cardinality(rows.executions) = Len(raw.executions)
               /\ rows.stock_orders = {}
          ELSE /\ rows.option_orders = {}
               /\ rows.option_legs = {}
               /\ rows.executions = {}
               /\ IF extract_stock_order(raw, t.id) # NoEntity
                  THEN Cardinality(rows.stock_orders) = 1
                  ELSE rows.stock_orders = {}

ChildCreates == {"option_order_repo.create", "leg_repo.create",
                 "execution_repo.create", "stock_repo.create"}

\* C1: when the insert of a child entity of a record has failed and the call
\* has raised, no table holds a row of that record, its Transaction included.
C1_ChildFailureLeavesNothing ==
    (SyncTx /\ outcome = "StorageError" /\ pc \in ChildCreates)
        => NothingStoredFor(db, transaction[1].id)

\* C2: a call that passes a type filter runs like any other call (it is not
\* rejected) and what it stores and returns has a type in the filter.
C2_TypeFilterApplies ==
    (SyncTx /\ kwargs.has_types /\ Idle)
        => /\ outcome # "TypeError"
           /\ \A t \in Range(stored_transactions) : t.type \in kwargs.types
           /\ \A t \in db.transactions \ pre.transactions : t.type \in kwargs.types

\* C3: a call that repeats the adapter output of the successful call just
\* before it stores nothing, returns the empty list and changes no row count.
C3_IdempotentResync ==
    (SyncTx /\ repeat)
        => /\ stored_transactions = << >>
           /\ RowCounts(db) = RowCounts(pre)
           /\ RowCounts(conn) = RowCounts(pre)
           /\ outcome \in {"running", "ok", "AdapterError"}

C3_Witness ==
    /\ SyncTx /\ repeat /\ outcome = "ok"
    /\ Len(raw_transactions) = 2
    /\ db.option_legs # {} /\ db.stock_orders # {}

\* What the call did with raw record j, whose key was in storage when the call
\* started: no row, no entry in the result, no new child of the existing
\* Transaction, and no error other than the adapter's own.
DuplicateSkipped(j) ==
    LET raw == raw_transactions[j]
    IN /\ NothingStoredFor(db, uuid4(ncalls, j))
       /\ \A t \in Range(stored_transactions) : t.id # uuid4(ncalls, j)
       /\ \A t \in pre.transactions :
             (t.source = "robinhood" /\ t.source_id = raw.id)
                 => ChildRows(db, t.id) = ChildRows(pre, t.id)
       /\ j = idx => pc \in {"loop", "normalize_transaction"}

\* C4 as stated: every raw record whose (source, source_id) is in storage is
\* skipped without a write and without an error, and the loop goes on.
C4_DuplicateAlwaysSkipped ==
    SyncTx => \A j \in 1..Len(raw_transactions) :
        KeyIn(pre, "robinhood", raw_transactions[j].id) => DuplicateSkipped(j)

\* C4 amended: every raw record that passes Transaction validation and whose
\* (source, source_id) is in storage is skipped without a write and without
\* an error, and the loop goes on.
C4_ValidDuplicateSkipped ==
    SyncTx => \A j \in 1..Len(raw_transactions) :
        (ValidRaw(raw_transactions[j]) /\ KeyIn(pre, "robinhood", raw_transactions[j].id))
            => DuplicateSkipped(j)

C4_Witness ==
    /\ SyncTx /\ outcome = "ok"
    /\ Len(raw_transactions) = 2
    /\ KeyIn(pre, "robinhood", raw_transactions[1].id)
    /\ Len(stored_transactions) = 1
    /\ stored_transactions[1].raw_data = raw_transactions[2]

\* C5: a record whose Transaction is invalid makes the call raise
\* ValidationError at once; then nothing is stored for it or for any later
\* record, and every record returned so far is stored in full.
C5_ValidationFailureAborts ==
    /\ (SyncTx /\ idx <= Len(raw_transactions) /\ transaction # NoEntity
            /\ transaction[1].id = uuid4(ncalls, idx) /\ BrokenRaw(raw_transactions[idx]))
        => (pc = "validate_transaction" /\ outcome = "ValidationError")
    /\ (SyncTx /\ pc = "validate_transaction")
        => /\ \A j \in idx..Len(raw_transactions) : NothingStoredFor(db, uuid4(ncalls, j))
           /\ \A t \in Range(stored_transactions) : FullyStored(db, t)
           /\ db.transactions = pre.transactions \cup Range(stored_transactions)

C5_Witness ==
    /\ SyncTx /\ pc = "validate_transaction"
    /\ idx = 2
    /\ Len(stored_transactions) = 1

\* C6: when an adapter call has failed, nothing is left behind: storage is
\* as before the call for login / extract_transactions, and holds no row of
\* the record at hand for a per-record adapter call.
C6_AdapterFailureLeavesNothing ==
    (SyncTx /\ outcome \in {"LoginError", "ExtractError", "AdapterError"})
        => IF pc = "begin"
           THEN db = pre
           ELSE NothingStoredFor(db, uuid4(ncalls, idx))

\* C7: no two Transaction rows share (source, source_id).
C7_NaturalKeyUnique ==
    \A T \in {db, conn} : \A t1, t2 \in T.transactions :
        (t1.source = t2.source /\ t1.source_id = t2.source_id) => t1 = t2

C7_Witness ==
    /\ op = "create" /\ outcome = "IntegrityError"
    /\ transaction[1].id \notin Ids(db.transactions)
    /\ KeyIn(db, transaction[1].source, transaction[1].source_id)

\* Index of the raw record a Transaction of the current call was made from.
RawIndex(t) == (t.id - uuid4(ncalls, 0)) \div 10

\* C8: on a normal return the result lists exactly the Transactions the call
\* inserted, in the order of the adapter output, and a raw record missing from
\* it had a key that was in storage or earlier in the same output.
C8_ReturnsExactlyInserted ==
    (SyncTx /\ outcome = "ok")
        => /\ Range(stored_transactions) = db.transactions \ pre.transactions
           /\ \A i \in 1..Len(stored_transactions) :
                 /\ RawIndex(stored_transactions[i]) \in 1..Len(raw_transactions)
                 /\ stored_transactions[i].raw_data
                        = raw_transactions[RawIndex(stored_transactions[i])]
                 /\ \A i2 \in 1..Len(stored_transactions) :
                       i < i2 => RawIndex(stored_transactions[i])
                                     < RawIndex(stored_transactions[i2])
           /\ \A j \in 1..Len(raw_transactions) :
                 \/ \E t \in Range(stored_transactions) : RawIndex(t) = j
                 \/ KeyIn(pre, "robinhood", raw_transactions[j].id)
                 \/ \E j0 \in 1..(j - 1) : raw_transactions[j0].id = raw_transactions[j].id

C8_Witness ==
    /\ SyncTx /\ outcome = "ok"
    /\ Len(stored_transactions) = 2
    /\ pre.transactions # {}

\* C9: on a normal return every returned Transaction has the children the
\* adapter yields for it: one OptionOrder, a row per leg and per execution,
\* or one StockOrder, all under the Transaction's id.
C9_ChildrenStored ==
    (SyncTx /\ outcome = "ok")
        => \A t \in Range(stored_transactions) : FullyStored(db, t)

C9_Witness ==
    /\ SyncTx /\ outcome = "ok"
    /\ \E t \in Range(stored_transactions) :
          /\ t.type = "option"
          /\ Cardinality(RecordRows(db, t.id).option_legs) = 2
          /\ Cardinality(RecordRows(db, t.id).executions) = 1
    /\ \E t \in Range(stored_transactions) :
          t.type = "stock" /\ RecordRows(db, t.id).stock_orders # {}

\* C10: a successful sync_positions call inserts one row per raw position and
\* returns them; n successful calls over the same k positions leave n * k rows.
C10_PositionsAlwaysInserted ==
    /\ (op = "sync_positions" /\ outcome = "ok")
        => /\ Len(stored_positions) = Len(raw_positions)
           /\ Range(stored_positions) = db.positions \ pre.positions
           /\ Cardinality(db.positions)
                  = Cardinality(pre.positions) + Len(raw_positions)
    /\ (pos_history.clean /\ Idle)
        => Cardinality(db.positions) = pos_history.n * Len(raw_positions)

C10_Witness ==
    /\ op = "sync_positions" /\ outcome = "ok"
    /\ pos_history.clean /\ pos_history.n = 2
    /\ Len(raw_positions) = 2

\* The raw position's Position breaks a validation rule.
BrokenRawPosition(raw) == raw.symbol = "" \/ raw.last_updated \in {"", BadTs}

\* C11: a position whose validation fails makes sync_positions raise
\* ValidationError; then neither it nor any later position is stored, and the
\* positions inserted earlier in the call are stored.
C11_PositionValidationAborts ==
    /\ \A p \in db.positions \cup Range(stored_positions) :
          p.symbol # "" /\ p.last_updated # BadTs
    /\ (op = "sync_positions" /\ outcome = "running" /\ idx <= Len(raw_positions))
        => \A j \in 1..(idx - 1) : ~BrokenRawPosition(raw_positions[j])
    /\ (op = "sync_positions" /\ pc = "validate_position")
        => /\ outcome = "ValidationError"
           /\ BrokenRawPosition(raw_positions[idx])
           /\ Len(stored_positions) = idx - 1
           /\ \A j \in idx..Len(raw_positions) :
                 uuid4(ncalls, j) \notin Ids(db.positions)
           /\ \A j \in 1..(idx - 1) :
                 /\ stored_positions[j].id = uuid4(ncalls, j)
                 /\ stored_positions[j] \in db.positions
           /\ db.positions = pre.positions \cup Range(stored_positions)

C11_Witness ==
    /\ op = "sync_positions" /\ pc = "validate_position"
    /\ idx = 2
    /\ Cardinality(db.positions) > Cardinality(pre.positions)

CallsTo(fns) == {i \in DOMAIN adapter_calls : adapter_calls[i].fn \in fns}

LoginCalls == CallsTo({"login"})

ExtractCalls == CallsTo({"extract_transactions", "extract_positions"})

\* C12: without resolvable credentials a sync call raises
\* CredentialsNotFoundError before any call on the factory or the adapter and
\* without a storage write; any such call is made with both credentials found.
C12_NoCredentialsNoWork ==
    op \in SyncOps
        => /\ outcome = "CredentialsNotFoundError"
                => /\ pc = "get_credentials"
                   /\ creds = NoEntity
                   /\ adapter_calls = << >>
                   /\ raw_transactions = << >> /\ raw_positions = << >>
                   /\ db = pre /\ conn = pre
           /\ (adapter_calls # << >> \/ pc \notin {"get_credentials"})
                => /\ creds # NoEntity
                   /\ creds[1].username # ""
                   /\ creds[1].password # ""

C12_Witness ==
    /\ op = "sync_positions" /\ outcome = "CredentialsNotFoundError"
    /\ adapter_calls = << >>
    /\ db.transactions # {}

\* C13: a sync call logs the adapter in once, with the resolved credentials and
\* before the extract call; when the login raises or the adapter has no login,
\* there is no extract call and no storage write.
C13_AuthenticatedOnce ==
    op \in SyncOps
        => /\ Cardinality(LoginCalls) <= 1
           /\ Cardinality(ExtractCalls) <= 1
           /\ \A i \in LoginCalls :
                 /\ creds # NoEntity
                 /\ adapter_calls[i].args = <<creds[1].username, creds[1].password>>
           /\ \A j \in ExtractCalls : \E i \in LoginCalls : i < j
           /\ (outcome = "ok" \/ pc \in {"extract", "loop"})
                => Cardinality(LoginCalls) = 1
           /\ outcome \in {"LoginError", "AttributeError"}
                => /\ pc = "_login_adapter"
                   /\ ExtractCalls = {}
                   /\ raw_transactions = << >> /\ raw_positions = << >>
                   /\ db = pre /\ conn = pre

C13_Witness ==
    /\ op = "sync_transactions" /\ outcome = "ok"
    /\ Len(stored_transactions) = 2
    /\ adapter_calls[1].fn = "create_adapter"
    /\ LoginCalls = {2} /\ ExtractCalls = {3}

ScopeEnded == event.kind \in {"commit", "rollback"}

\* All statements of the ended scope are in the database / none of them is.
ScopeOutcomeKept ==
    LET scope == event.scope[1]
    IN IF event.kind = "commit"
       THEN Replay(db, scope.stmts) = db
       ELSE db = scope.expect

\* C14: when a Storage.transaction() scope has ended normally, every statement
\* made through its handle is committed; when it has ended by an error, none
\* of them is in the database.
C14_ScopeCommitsOrRollsBack ==
    ScopeEnded => ScopeOutcomeKept

StatementTables(stmts) == {stmts[i].table : i \in DOMAIN stmts}

\* C15: a repository call with the handle of an open scope leaves the
\* committed contents and the pending statements as they are and only adds
\* its own; the writes of a scope made so through several repositories are
\* all committed when the scope ends normally and all gone when it ends by
\* an error.
C15_HandleWritesFollowScope ==
    /\ event.kind = "statement"
        => /\ db = event.db_before
           /\ conn = Execute(event.conn_before, event.stmt[1], TRUE).contents
           /\ Len(scopes) = event.depth
    /\ (ScopeEnded /\ Cardinality(StatementTables(event.scope[1].stmts)) >= 2)
        => ScopeOutcomeKept

\* C16: the end of a scope opened inside another scope commits or discards
\* the inner scope's statements only; what the outer scope has pending stays
\* pending, neither committed nor discarded.
C16_InnerScopeIndependent ==
    (ScopeEnded /\ event.depth >= 2)
        => LET scope == event.scope[1]
           IN IF event.kind = "commit"
              THEN /\ db = Replay(event.db_before, scope.stmts)
                   /\ conn = event.conn_before
              ELSE /\ db = event.db_before
                   /\ conn = scope.entry_conn

\* ------------------------------------------------------------------------
\* Foreign keys
\* ------------------------------------------------------------------------
\* Every reference of the schema points at an existing row.
RefIntegrity(T) ==
    /\ \A o \in T.option_orders : o.id \in Ids(T.transactions)
    /\ \A o \in T.stock_orders : o.id \in Ids(T.transactions)
    /\ \A e \in T.executions : e.order_id \in Ids(T.transactions)
    /\ \A l \in T.option_legs : l.order_id \in Ids(T.option_orders)
    /\ \A e \in T.executions : e.leg_id = NoLeg \/ e.leg_id \in Ids(T.option_legs)

\* The statement of the last repository call written without any check.
Unchecked(T, stmt) ==
    CASE stmt.verb = "create" -> InsertRow(T, stmt.table, stmt.row)
      [] stmt.verb = "update" -> UpdateRow(T, stmt.table, stmt.row)
      [] OTHER -> T

RepositoryCalled == event.kind = "call" /\ event.stmt[1].table \in storage.tables

WouldOrphan ==
    /\ RepositoryCalled
    /\ ~RefIntegrity(Unchecked(event.db_before, event.stmt[1]))

\* C17: every connection of a Storage, the ones opened after close()
\* included, enforces foreign keys; in every state each OptionOrder,
\* StockOrder and Execution refers to an existing Transaction, each OptionLeg
\* to an existing OptionOrder, and each Execution.leg_id is null or refers to
\* an existing OptionLeg; an insert or update that would break this raises
\* and changes nothing.
C17_ForeignKeysEnforced ==
    /\ storage.connection => storage.foreign_keys
    /\ RefIntegrity(db)
    /\ RefIntegrity(conn)
    /\ WouldOrphan => event.raised /\ db = event.db_before /\ conn = db

\* An orphan insert refused on a file database holding rows, on the connection
\* opened after close().
C17_Witness ==
    /\ WouldOrphan
    /\ event.raised
    /\ event.stmt[1].verb = "create"
    /\ storage.connects = MaxConnects
    /\ db.transactions # {}

\* ------------------------------------------------------------------------
\* Deletion
\* ------------------------------------------------------------------------
\* The last step was a repository delete on `table` that went through.
Deleted(table) ==
    /\ RepositoryCalled
    /\ ~event.raised
    /\ event.stmt[1].verb = "delete"
    /\ event.stmt[1].table = table

DeletedId == event.stmt[1].row.id

\* C18: after a Transaction is deleted, its StockOrder, its OptionOrder, its
\* Executions and the OptionLegs of its OptionOrder are gone as well, and
\* the rows of other transactions are all still there.
C18_TransactionDeleteCascades ==
    Deleted("transactions") =>
        /\ DeletedId \notin Ids(db.transactions)
        /\ DeletedId \notin Ids(db.stock_orders)
        /\ DeletedId \notin Ids(db.option_orders)
        /\ \A e \in db.executions : e.order_id # DeletedId
        /\ \A l \in db.option_legs : l.order_id # DeletedId
        /\ \A table \in {"transactions", "stock_orders", "option_orders"} :
            db[table] = {r \in event.db_before[table] : r.id # DeletedId}
        /\ db.executions = {e \in event.db_before.executions : e.order_id # DeletedId}
        /\ db.option_legs = {l \in event.db_before.option_legs : l.order_id # DeletedId}

\* A transaction with an option order, legs and an execution was deleted
\* while a stock transaction stayed.
C18_Witness ==
    /\ Deleted("transactions")
    /\ DeletedId \in Ids(event.db_before.option_orders)
    /\ \E l \in event.db_before.option_legs : l.order_id = DeletedId
    /\ \E e \in event.db_before.executions : e.order_id = DeletedId
    /\ db.option_legs = {}
    /\ db.stock_orders # {}

\* The legs removed by the last delete: the leg itself, or the legs of the
\* deleted option order.
DeletedLegs ==
    IF event.stmt[1].table = "option_legs" THEN {DeletedId}
    ELSE {l.id : l \in {x \in event.db_before.option_legs : x.order_id = DeletedId}}

\* C19: after an OptionLeg is deleted, directly or through the deletion of
\* its OptionOrder alone, every Execution is kept: one that referred to a
\* deleted leg has leg_id null and its other fields unchanged, every other
\* one is unchanged.
C19_LegDeleteSetsNull ==
    Deleted("option_legs") \/ Deleted("option_orders") =>
        /\ DeletedLegs \cap Ids(db.option_legs) = {}
        /\ db.executions = {IF e.leg_id \in DeletedLegs
                            THEN [e EXCEPT !.leg_id = NoLeg]
                            ELSE e : e \in event.db_before.executions}
        /\ Cardinality(db.executions) = Cardinality(event.db_before.executions)

\* An option order was deleted alone and the execution of one of its legs is
\* still stored, without a leg.
C19_Witness ==
    /\ Deleted("option_orders")
    /\ \E e \in event.db_before.executions :
        /\ e.leg_id \in DeletedLegs
        /\ [e EXCEPT !.leg_id = NoLeg] \in db.executions
    /\ DeletedId \in Ids(db.transactions)

\* ------------------------------------------------------------------------
\* Bootstrap
\* ------------------------------------------------------------------------
\* C20: once a Storage has been constructed and holds a connection, whatever
\* its path was (:memory:, a file that did not exist, a file that existed),
\* all seven tables exist; and constructing and connecting leave the rows of
\* a database that was already there unchanged.
C20_SchemaBootstrapped ==
    /\ storage.connection => storage.tables = SchemaTables
    /\ event.kind \in {"construct", "connect"} => db = event.db_before
    /\ storage.connects <= 1 /\ event.kind \in {"construct", "connect"} => db = pre

\* ------------------------------------------------------------------------
\* Concurrent runs
\* ------------------------------------------------------------------------
SameKey(t, u) == t.source = u.source /\ t.source_id = u.source_id

\* Run r's insert of its current Transaction was refused.
InsertRefused(r) == runs[r].pc = "tx_repo.create"

\* C21: when a run passes the existence check for a natural key and another
\* run commits that key before the first run inserts, the first run's
\* insert is refused and the run aborts with the storage's integrity error
\* (it neither skips the record nor returns); the other run's row is the only
\* one stored under the key, so no two Transactions ever share a natural
\* key.
C21_RaceEndsInConflict ==
    /\ \A t, u \in db.transactions : SameKey(t, u) => t = u
    /\ \A r \in Runs :
        /\ runs[r].raced <=> InsertRefused(r)
        /\ InsertRefused(r) =>
            LET t == runs[r].transaction[1]
            IN /\ runs[r].outcome = "IntegrityError"
               /\ t \notin Range(runs[r].stored)
               /\ t.id \notin Ids(db.transactions)
               /\ Cardinality({u \in db.transactions : SameKey(t, u)}) = 1
               /\ \E q \in Runs \ {r} : \E u \in Range(runs[q].stored) : SameKey(t, u)

\* Run 2 lost the race for a key that run 1 stored, and run 1 went on to
\* return normally.
C21_Witness ==
    /\ runs[2].raced
    /\ runs[2].outcome = "IntegrityError"
    /\ runs[1].outcome = "ok"
    /\ \E u \in Range(runs[1].stored) : SameKey(runs[2].transaction[1], u)

\* ------------------------------------------------------------------------
\* Frame of the sync path
\* ------------------------------------------------------------------------
SyncRunning == op \in SyncOps

\* C22: during and after a sync_transactions or sync_positions call, however
\* it ends, every row that was in a table when the call started is still in
\* that table, unchanged.
C22_SyncInsertOnly ==
    SyncRunning =>
        \A table \in TableNames :
            /\ pre[table] \subseteq db[table]
            /\ pre[table] \subseteq conn[table]

\* A call that raised after it had added rows to a database that already
\* held transactions, children and positions.
C22_Witness ==
    /\ SyncRunning
    /\ outcome \notin {"none", "running", "ok"}
    /\ pre.transactions # {} /\ pre.option_legs # {} /\ pre.executions # {}
    /\ db # pre

\* ------------------------------------------------------------------------
\* SourceFactory.register
\* ------------------------------------------------------------------------
RegisterCalled == factory.call.source_name # ""

\* C23: register raises ValueError for a name that is already registered and
\* TypeError for a class that is not a DataSourceAdapter subclass, and then
\* leaves the registry as it was; otherwise it adds the name with the class.
\* So every registered name maps to the first class registered under it.
C23_RegisterKeepsFirst ==
    /\ RegisterCalled =>
        LET c == factory.call
        IN /\ c.source_name \in DOMAIN c.before => c.raised = "ValueError"
           /\ ~issubclass_DataSourceAdapter(c.adapter_class) => c.raised # "none"
           /\ c.raised = "TypeError" => ~issubclass_DataSourceAdapter(c.adapter_class)
           /\ c.raised # "none" => factory.registry = c.before
           /\ c.raised = "none" =>
                /\ DOMAIN factory.registry = DOMAIN c.before \cup {c.source_name}
                /\ factory.registry[c.source_name] = c.adapter_class
                /\ \A n \in DOMAIN c.before : factory.registry[n] = c.before[n]
    /\ DOMAIN factory.registry = DOMAIN factory.first
    /\ \A n \in DOMAIN factory.registry : factory.registry[n] = factory.first[n]

\* A second class was refused for a name that keeps its first class, after
\* every name had been registered.
C23_Witness ==
    /\ factory.call.raised = "ValueError"
    /\ issubclass_DataSourceAdapter(factory.call.adapter_class)
    /\ factory.registry[factory.call.source_name] # factory.call.adapter_class
    /\ DOMAIN factory.registry = SourceNames

\* ------------------------------------------------------------------------
\* Credentials
\* ------------------------------------------------------------------------
Deleting == keyring.last.fn = "delete_credentials"

EntriesOf(source) == {KeyringKey(source, "email"), KeyringKey(source, "password")}

\* C24: delete_credentials(source) raises nothing whichever of the two
\* entries are missing; afterwards neither entry of the source is stored and
\* the entries of other sources are as before; a second call would raise
\* nothing and leave the store as it is.
C24_DeleteIdempotent ==
    Deleting =>
        LET src == keyring.last.source
            again == delete_credentials(keyring.store, src)
        IN /\ keyring.last.raised = "none"
           /\ \A key \in EntriesOf(src) : keyring.store[key] = NoEntity
           /\ \A key \in KeyringKeys \ EntriesOf(src) :
                keyring.store[key] = keyring.last.before[key]
           /\ again.raised = "none"
           /\ again.store = keyring.store

\* The call found the password entry but no email entry, while the other
\* source had credentials stored.
C24_Witness ==
    /\ Deleting
    /\ keyring.last.before[KeyringKey(keyring.last.source, "email")] = NoEntity
    /\ keyring.last.before[KeyringKey(keyring.last.source, "password")] # NoEntity
    /\ \E key \in KeyringKeys \ EntriesOf(keyring.last.source) :
        keyring.store[key] # NoEntity

\* C25: a delete_credentials(source) call makes exactly two
\* keyring.delete_password calls, one for the email entry and one for the
\* password entry.
C25_TwoDeleteCalls ==
    Deleting =>
        /\ Len(keyring.last.calls) = 2
        /\ keyring.last.calls =
            <<KeyringCall("delete_password", KeyringKey(keyring.last.source, "email")),
              KeyringCall("delete_password", KeyringKey(keyring.last.source, "password"))>>

CallsNamed(fn) ==
    {i \in 1..Len(keyring.last.calls) : keyring.last.calls[i].fn = fn}

\* C26: the login command calls store_credentials only after create_adapter
\* has returned; when the login raises, the command exits with a non-zero
\* code, makes no keyring.set_password call and leaves the keyring as it was.
C26_StoreAfterLogin ==
    keyring.last.fn = "login" =>
        /\ Cardinality(CallsNamed("create_adapter")) = 1
        /\ \A i \in CallsNamed("set_password") :
            /\ ~keyring.last.login_raised
            /\ \E j \in CallsNamed("create_adapter") : j < i
        /\ keyring.last.login_raised =>
            /\ keyring.last.exit_code # 0
            /\ CallsNamed("set_password") = {}
            /\ keyring.store = keyring.last.before
        /\ keyring.last.exit_code = 0 =>
            /\ CallsNamed("set_password") # {}
            /\ \A key \in EntriesOf(keyring.last.source) : keyring.store[key] # NoEntity

\* A failed login with credentials typed at the prompt, on a keyring that
\* held other credentials for the source.
C26_Witness ==
    /\ keyring.last.fn = "login"
    /\ keyring.last.login_raised
    /\ keyring.last.exit_code = 1
    /\ CallsNamed("get_password") = {}
    /\ keyring.store[KeyringKey(keyring.last.source, "email")] = <<"other">>
    /\ \E i \in CallsNamed("create_adapter") :
        keyring.last.calls[i].key.username = "user"

\* ------------------------------------------------------------------------
\* Adapter functions
\* ------------------------------------------------------------------------
\* C27: extract_executions returns one Execution per raw execution entry, in
\* the entries' order; execution i has leg_id = leg_ids[i] when leg ids are
\* supplied and i is within them, and a null leg_id otherwise.
C27_ExecutionsPairedByIndex ==
    probe.fn = "extract_executions" /\ probe.raised = "none" =>
        LET raws == probe.args.raw.executions
            ids == probe.args.leg_ids
        IN /\ Len(probe.result) = Len(raws)
           /\ \A i \in 1..Len(raws) :
                /\ probe.result[i].price = raws[i].price
                /\ probe.result[i].quantity = raws[i].quantity
                /\ probe.result[i].timestamp = raws[i].timestamp
                /\ probe.result[i].order_id = probe.args.transaction_id
                /\ i <= Len(ids) => probe.result[i].leg_id = ids[i]
                /\ i > Len(ids) => probe.result[i].leg_id = NoLeg

\* Three different executions against two leg ids: the first two paired in
\* order, the third without a leg.
C27_Witness ==
    /\ probe.fn = "extract_executions"
    /\ probe.raised = "none"
    /\ Len(probe.result) = 3
    /\ Len(probe.args.leg_ids) = 2
    /\ probe.args.raw.executions[1] # probe.args.raw.executions[2]
    /\ probe.result[2].leg_id = probe.args.leg_ids[2]
    /\ probe.result[3].leg_id = NoLeg

\* The point in time a date argument stands for as a lower bound.
StartBound(d) == d.day * (LastTick + 1) + (IF d.has_time THEN d.tick ELSE 0)

\* The point in time a date argument stands for as an upper bound: the last
\* tick of the day when it has no time component.
EndBound(d) == d.day * (LastTick + 1) + (IF d.has_time THEN d.tick ELSE LastTick)

InRange(tx) ==
    LET t == tx.created_at.day * (LastTick + 1) + tx.created_at.tick
    IN /\ probe.args.start_date # NoEntity => StartBound(probe.args.start_date[1]) <= t
       /\ probe.args.end_date # NoEntity => t <= EndBound(probe.args.end_date[1])

\* C28: with a start and/or end bound, extract_transactions returns, in
\* source order, exactly the records whose timestamp t satisfies
\* start <= t <= end, an end date without a time component standing for
\* the last instant of its day.
C28_DateFilterInclusive ==
    (/\ probe.fn = "extract_transactions"
     /\ probe.raised = "none"
     /\ probe.args.start_date # NoEntity \/ probe.args.end_date # NoEntity)
        => probe.result = SelectSeq(probe.args.transactions, InRange)

\* C29: for a raw record without a symbol, extract_stock_order raises
\* ValueError; it returns neither a StockOrder nor an empty result.
C29_MissingSymbolRaises ==
    (/\ probe.fn = "extract_stock_order"
     /\ probe.raised # "pending"
     /\ probe.args.raw.symbol = "")
        => probe.raised = "ValueError"

\* ------------------------------------------------------------------------
\* Models
\* ------------------------------------------------------------------------
RoundTripped == probe.fn = "round_trip" /\ probe.raised = "none"

\* C30: for each of the seven models and every value of it, values with None
\* in Optional fields included, from_db_row(to_db_tuple(entity)) = entity.
C30_RowRoundTrip ==
    RoundTripped => probe.result = <<probe.args.entity>>

\* A Position with some Optional fields None and others set came back.
C30_Witness ==
    /\ RoundTripped
    /\ probe.args.model = "Position"
    /\ probe.result[1].account_id = NoEntity
    /\ probe.result[1].cost_basis = NoEntity
    /\ probe.result[1].current_price # NoEntity

\* ------------------------------------------------------------------------
\* Validators: sign constraints
\* ------------------------------------------------------------------------
Validated(model) ==
    /\ probe.fn = "validate"
    /\ probe.raised # "pending"
    /\ probe.args.model = model

\* The fields of a model that carry a sign constraint, and whether the
\* entity breaks the constraint of the field.
SignFields(model) ==
    CASE model = "OptionLeg" -> {"strike_price", "ratio_quantity"}
      [] model = "Execution" -> {"price", "quantity"}
      [] model = "StockOrder" -> {"quantity", "price", "average_price"}

BreaksSign(model, e, field) ==
    CASE field \in {"ratio_quantity", "quantity"} -> e[field] <= 0
      [] field = "strike_price" -> e.strike_price < 0
      [] field = "price" /\ model = "Execution" -> e.price < 0
      [] OTHER -> e[field] # NoEntity /\ e[field][1] < 0

FieldName(model, field) ==
    CASE model = "OptionLeg" /\ field = "strike_price" -> "OptionLeg.strike_price"
      [] model = "OptionLeg" /\ field = "ratio_quantity" -> "OptionLeg.ratio_quantity"
      [] model = "Execution" /\ field = "price" -> "Execution.price"
      [] model = "Execution" /\ field = "quantity" -> "Execution.quantity"
      [] model = "StockOrder" /\ field = "quantity" -> "StockOrder.quantity"
      [] model = "StockOrder" /\ field = "price" -> "StockOrder.price"
      [] model = "StockOrder" /\ field = "average_price" -> "StockOrder.average_price"

\* The entity with the field set to a value that satisfies every check.
OtherwiseValid(model, e, field) ==
    LET good == CASE field = "strike_price" -> 150
                  [] field = "ratio_quantity" -> 1
                  [] field = "quantity" -> 10
                  [] field = "price" /\ model = "Execution" -> 2
                  [] OTHER -> NoEntity
    IN validate_message(model, [e EXCEPT ![field] = good]) = "none"

\* C31: an OptionLeg with ratio_quantity <= 0 or strike_price < 0, an
\* Execution with quantity <= 0 or price < 0 and a StockOrder with
\* quantity <= 0 or a negative price or average_price are rejected with
\* ValidationError, and the message names the field when it is the only
\* invalid one; an entity whose fields are all valid, the boundary values
\* strike_price = 0 and price = 0 included, is accepted.
C31_SignConstraints ==
    \A model \in ValidatedModels :
        Validated(model) =>
            LET e == probe.args.entity
                broken == {f \in SignFields(model) : BreaksSign(model, e, f)}
            IN /\ broken # {} => probe.raised = "ValidationError"
               /\ \A f \in broken :
                    OtherwiseValid(model, e, f) => probe.result = FieldName(model, f)
               /\ (broken = {} /\ probe.raised = "ValidationError")
                    => probe.result \notin {FieldName(model, f) : f \in SignFields(model)}

\* An Execution with the boundary price = 0 and quantity = 0 was rejected
\* for its quantity.
C31_Witness ==
    /\ Validated("Execution")
    /\ probe.args.entity.price = 0
    /\ probe.args.entity.quantity = 0
    /\ probe.result = "Execution.quantity"

\* ------------------------------------------------------------------------
\* Listing
\* ------------------------------------------------------------------------
\* The transactions of find_all that pass the type and days filters.
PassesFilters(kw, tx) ==
    /\ kw.transaction_type # NoEntity => tx.type = kw.transaction_type[1]
    /\ kw.days # NoEntity =>
            /\ tx.created_at.tick <= LastTick
            /\ fromisoformat(tx.created_at) >= utcnow - kw.days[1] * (LastTick + 1)

Created(tx) ==
    IF tx.created_at.tick > LastTick THEN -1 ELSE fromisoformat(tx.created_at)

\* result holds the n newest of the filtered transactions, newest first.
MostRecentFirst(result, filtered, n) ==
    /\ Range(result) \subseteq filtered
    /\ Len(result) = IF Cardinality(filtered) < n THEN Cardinality(filtered) ELSE n
    /\ \A i, j \in 1..Len(result) : i < j => Created(result[i]) > Created(result[j])
    /\ \A tx \in filtered \ Range(result) :
            \A kept \in Range(result) : Created(tx) <= Created(kept)

ListedWithLast ==
    /\ probe.fn = "list_transactions"
    /\ probe.raised # "pending"
    /\ "last" \in probe.args.kwargs.names
    /\ probe.args.kwargs.last # NoEntity

\* C32: list_transactions with last = N returns the N transactions with the
\* most recent created_at, newest first, chosen among those that pass the
\* type and days filters.
C32_LastAfterFilters ==
    ListedWithLast =>
        /\ probe.raised = "none"
        /\ MostRecentFirst(probe.result,
                           {tx \in Range(probe.args.find_all) :
                                PassesFilters(probe.args.kwargs, tx)},
                           probe.args.kwargs.last[1])

\* ------------------------------------------------------------------------
\* Classification
\* ------------------------------------------------------------------------
Classified ==
    probe.fn = "_determine_transaction_type" /\ probe.raised = "none"

\* What the raw record shows of each kind.
OptionMarked(raw) == raw.has_legs \/ raw.instrument = "options/instruments/aapl"

TypeNames(raw, word) ==
    CASE word = "crypto" -> raw.type \in {"crypto_order", "Crypto", "crypto_dividend"}
      [] word = "dividend" -> raw.type \in {"dividend_payment", "crypto_dividend"}

\* C35: the type is the first match in the order option marker (a legs field
\* or an option instrument reference, even next to a symbol), non-empty
\* symbol, type string containing crypto, type string containing dividend;
\* with no match it is unknown.
C35_ClassificationPriority ==
    Classified =>
        LET raw == probe.args.raw
        IN /\ OptionMarked(raw) => probe.result = "option"
           /\ (~OptionMarked(raw) /\ raw.symbol # "") => probe.result = "stock"
           /\ (~OptionMarked(raw) /\ raw.symbol = "" /\ TypeNames(raw, "crypto"))
                => probe.result = "crypto"
           /\ (/\ ~OptionMarked(raw) /\ raw.symbol = ""
               /\ ~TypeNames(raw, "crypto") /\ TypeNames(raw, "dividend"))
                => probe.result = "dividend"
           /\ (/\ ~OptionMarked(raw) /\ raw.symbol = ""
               /\ ~TypeNames(raw, "crypto") /\ ~TypeNames(raw, "dividend"))
                => probe.result = "unknown"

\* A record with legs and a symbol was classified as option.
C35_Witness ==
    /\ Classified
    /\ probe.args.raw.has_legs
    /\ probe.args.raw.symbol = "MSFT"
    /\ probe.result = "option"

\* ------------------------------------------------------------------------
\* Children of a record
\* ------------------------------------------------------------------------
ChildValidations == {"validate_option_order", "validate_option_leg",
                     "validate_execution", "validate_stock_order"}

\* C33: when the validation of a child entity of a record has failed, the
\* call has raised ValidationError and no table holds a row of that record:
\* neither its Transaction nor a child inserted before the failing one.
C33_ChildValidationLeavesNothing ==
    (SyncTx /\ pc \in ChildValidations)
        => /\ outcome = "ValidationError"
           /\ NothingStoredFor(db, transaction[1].id)

\* A row a create call of the running or last sync has inserted.
Inserted(table) == db[table] \ pre[table]

\* The validation rules of the entity stored in a table.
MeetsRules(table, r) ==
    CASE table = "transactions" ->
            /\ r.source # "" /\ r.source_id # "" /\ r.type # ""
            /\ r.created_at \in {ValidTs, NowTs}
      [] table = "option_orders" -> r.chain_symbol # ""
      [] table = "option_legs" ->
            /\ r.strike_price >= 0 /\ r.ratio_quantity > 0
            /\ r.option_type \in {"call", "put"} /\ r.side \in {"buy", "sell"}
            /\ r.position_effect \in {"open", "close"}
      [] table = "executions" ->
            r.price >= 0 /\ r.quantity > 0 /\ r.timestamp \in {ValidTs, NowTs}
      [] table = "stock_orders" ->
            r.symbol # "" /\ r.side \in {"buy", "sell"} /\ r.quantity > 0
      [] table = "positions" ->
            r.source # "" /\ r.symbol # "" /\ r.last_updated \in {ValidTs, NowTs}

\* C34: a sync hands an entity to a repository create only after the
\* entity's validator has returned normally, so every row a sync has
\* inserted meets the validation rules of its entity, and so does every leg
\* the loop has passed.
C34_ValidatedBeforeCreate ==
    (op \in SyncOps) =>
        /\ \A table \in TableNames : \A r \in Inserted(table) : MeetsRules(table, r)
        /\ (pc = "leg" /\ outcome = "running")
                => \A i \in 1..(k - 1) : MeetsRules("option_legs", legs[i])

\* The first leg of an option order is stored and the second one, which is
\* invalid, has ended the call.
C34_Witness ==
    /\ SyncTx
    /\ pc = "validate_option_leg"
    /\ k = 2
    /\ Cardinality(Inserted("option_legs")) = 1

\* C36: in every storage state a Transaction has an OptionOrder row only if
\* its type is option and a StockOrder row only if its type is stock, and no
\* Transaction has both.
C36_ChildMatchesType ==
    \A T \in {db, conn} : \A t \in T.transactions :
        LET rows == RecordRows(T, t.id)
        IN /\ rows.option_orders # {} => t.type = "option"
           /\ rows.stock_orders # {} => t.type = "stock"
           /\ rows.option_orders = {} \/ rows.stock_orders = {}

\* An option order that carries a symbol is stored with its OptionOrder and
\* a stock order with its StockOrder.
C36_Witness ==
    /\ \E t \in db.transactions :
          /\ t.raw_data = RawOptionSymbol
          /\ RecordRows(db, t.id).option_orders # {}
          /\ RecordRows(db, t.id).stock_orders = {}
    /\ \E t \in db.transactions :
          t.type = "stock" /\ RecordRows(db, t.id).stock_orders # {}

\* The Transaction of raw record j that an earlier, failed call left in
\* storage without all of its children.
LeftPartial(j) ==
    {t \in pre.transactions :
        /\ t.source = "robinhood"
        /\ t.source_id = raw_transactions[j].id
        /\ ~FullyStored(pre, t)}

\* C37: a record whose Transaction an earlier, failed call has left without
\* all of its children is stored in full by a later call that gets the record
\* again and returns normally; the record is not skipped as a duplicate.
C37_RetryCompletesRecord ==
    (SyncTx /\ outcome = "ok") =>
        \A j \in 1..Len(raw_transactions) :
            LeftPartial(j) # {} =>
                \E t \in db.transactions :
                    /\ t.source = "robinhood"
                    /\ t.source_id = raw_transactions[j].id
                    /\ FullyStored(db, t)

\* ------------------------------------------------------------------------
\* Duplicates within one adapter output
\* ------------------------------------------------------------------------
\* Raw record j has the (source, source_id) of an earlier record of the same
\* output, and the loop has come to it.
RepeatedInOutput(j) ==
    /\ j <= idx
    /\ \E j0 \in 1..(j - 1) : raw_transactions[j0].id = raw_transactions[j].id

\* The call has one stored row with the key of record j, made from an earlier
\* record, returns at most one Transaction with that key, and has written
\* and raised nothing for record j itself.
SecondSkipped(j) ==
    /\ KeyIn(db, "robinhood", raw_transactions[j].id)
    /\ NothingStoredFor(db, uuid4(ncalls, j))
    /\ Cardinality({i \in 1..Len(stored_transactions) :
            stored_transactions[i].source_id = raw_transactions[j].id}) <= 1
    /\ \A t \in Range(stored_transactions) : t.id # uuid4(ncalls, j)
    /\ j = idx => pc \in {"loop", "normalize_transaction"}

\* C38 as stated: of two raw records of one output with the same
\* (source, source_id) only the first is stored and returned; the second is
\* skipped without an error and without a write.
C38_RepeatedAlwaysSkipped ==
    SyncTx => \A j \in 1..Len(raw_transactions) :
        RepeatedInOutput(j) => SecondSkipped(j)

\* C38 amended: of two raw records of one output with the same
\* (source, source_id) only the first is stored and returned; the second, if
\* its Transaction passes validation, is skipped without an error and
\* without a write.
C38_ValidRepeatedSkipped ==
    SyncTx => \A j \in 1..Len(raw_transactions) :
        (RepeatedInOutput(j) /\ ValidRaw(raw_transactions[j])) => SecondSkipped(j)

\* A call over the same valid record twice has returned one Transaction.
C38_Witness ==
    /\ SyncTx /\ outcome = "ok"
    /\ Len(raw_transactions) = 2
    /\ raw_transactions[1] = raw_transactions[2]
    /\ pre.transactions = {}
    /\ Len(stored_transactions) = 1
    /\ Cardinality(db.transactions) = 1

\* ------------------------------------------------------------------------
\* Executions
\* ------------------------------------------------------------------------
\* The steps of lines 108-117, which run for an OptionOrder only.
OptionSteps == {"legs", "leg", "execution", "extract_option_legs", "validate_option_leg",
               "leg_repo.create", "extract_executions", "validate_execution",
               "execution_repo.create"}

\* C39: Execution rows are written only for records with an OptionOrder.  For
\* a record that is not an option order the call never comes to
\* extract_executions and holds no extracted executions, and no Execution
\* row belongs to a Transaction of another type, whatever execution entries
\* its raw record carries.
C39_ExecutionsOnlyForOptions ==
    /\ \A e \in db.executions :
          \E t \in db.transactions : t.id = e.order_id /\ t.type = "option"
    /\ (/\ SyncTx /\ transaction # NoEntity
        /\ idx <= Len(raw_transactions)
        /\ transaction[1].raw_data = raw_transactions[idx]
        /\ transaction[1].type # "option")
            => pc \notin OptionSteps /\ executions = << >>

\* A stock order whose raw record carries an execution entry is stored in
\* full, with no Execution row.
C39_Witness ==
    /\ SyncTx /\ outcome = "ok"
    /\ \E t \in Range(stored_transactions) :
          /\ t.raw_data = RawStockExecs
          /\ RecordRows(db, t.id).stock_orders # {}
          /\ RecordRows(db, t.id).executions = {}

====
